---------------------------- MODULE Spec2Model ----------------------------
(***************************************************************************)
(* A model of the slang compiler core: the Tokenizer                      *)
(* (src/src/tokenization.hpp), the recursive-descent Parser with its      *)
(* arena-allocated AST (src/src/parser.hpp, src/src/arena.hpp) and the    *)
(* stack-machine Generator (src/src/generation.hpp).                      *)
(*                                                                         *)
(* Conventions.  A std::optional<T> is a sequence of length 0 or 1.  A    *)
(* character is a one-character string and a std::string a sequence of    *)
(* characters.  C++ indices are 0-based, TLA+ sequences 1-based: the      *)
(* element at C++ index i is s[i + 1].                                    *)
(***************************************************************************)
EXTENDS Integers, Sequences, FiniteSets, TLC

VARIABLES
    pc,          \* where the process is: which phase runs, or how it ended
    cerr,        \* the diagnostics written to std::cerr, in order
    m_src,       \* Tokenizer::m_src
    m_src_index, \* Tokenizer::m_index
    tokens,      \* Tokenizer::tokenize's local vector `tokens`, and its result
    m_tokens,    \* Parser::m_tokens
    m_index,     \* Parser::m_index
    heap,        \* the cells handed out by Parser::m_allocator
    prog,        \* parse_prog's local NodeProg prog: its stmts
    expr_res,    \* the std::optional<NodeExpr*> a call of parse_expr returned
    stmt_start,  \* history: m_index at the call of parse_stmt that gave prog[i]
    src_prog,    \* input: the well-formed token sequence m_tokens was made from
    dropped,     \* input: the positions of the tokens of src_prog left out
    m_prog,      \* Generator::m_prog
    m_output,    \* Generator::m_output, a sequence of lines
    m_stack_loc, \* Generator::m_stack_loc
    m_vars,      \* Generator::m_vars
    m_scopes,    \* Generator::m_scopes
    frames,      \* the generator's call stack: what is left to do, innermost first
    ndebug,      \* whether the build defines NDEBUG (assert compiled out)
    def_slot,    \* history: per name, the machine stack slot its initializer filled
    m_size,      \* ArenaAllocator::m_size
    m_offset,    \* ArenaAllocator::m_offset, as the distance from m_buffer
    regions      \* history: the regions alloc has returned, in order

tokVars == <<m_src, m_src_index, tokens>>
parVars == <<m_tokens, m_index, heap, prog, expr_res, stmt_start, src_prog, dropped>>
genVars == <<m_prog, m_output, m_stack_loc, m_vars, m_scopes, frames, ndebug, def_slot>>
arenaVars == <<m_size, m_offset, regions>>
vars == <<pc, cerr, tokVars, parVars, genVars, arenaVars>>

None == <<>>
Some(v) == <<v>>
has_value(o) == o # <<>>
value(o) == o[1]

(***************************************************************************)
(* Bounds of the model.                                                    *)
(***************************************************************************)
\* the number of lexical pieces a source text is put together from
MaxPieces == 3
\* the number of diagnostics kept in cerr (a loop that prints for ever)
MaxErr == 2
\* the number of terms of an expression handed to parse_expr
MaxTerms == 4
\* the number of statements, at any depth, of a program handed to parse_prog
MaxNodes == 3
\* the number of statements, at any depth, of a program handed to gen_prog
MaxStmts == 3
\* the number of whitespace characters put between two tokens
MaxBlanks == 2
\* the largest capacity, in bytes, an arena is constructed with
MaxBytes == 64
\* the number of allocations made from one arena
MaxAllocs == 3
\* the length of an arbitrary token sequence handed to parse_prog
MaxToks == 3

(***************************************************************************)
(* TOKENIZER                                                               *)
(***************************************************************************)
\* the characters the model's sources are written in, by <cctype> class
AlphaChars == {"e", "x", "i", "t", "d", "f", "l", "s"}
DigitChars == {"1"}
SpaceChars == {" "}
PunctChars == {"(", ")", ";", "=", "+", "*", "-", "/", "{", "}"}
OtherChars == {"@", "_"}

isalpha(c) == c \in AlphaChars
isdigit(c) == c \in DigitChars
isalnum(c) == isalpha(c) \/ isdigit(c)
\* an isspace that knows no whitespace
isspace_never(c) == FALSE
isspace(c) == c \in SpaceChars

\* the kind of a single-character token (the else-if chain of tokenize)
PunctType(c) ==
    CASE c = "(" -> "open_paren"
      [] c = ")" -> "close_paren"
      [] c = ";" -> "semi"
      [] c = "=" -> "eq"
      [] c = "+" -> "plus"
      [] c = "*" -> "star"
      [] c = "-" -> "minus"
      [] c = "/" -> "fslash"
      [] c = "{" -> "open_curly"
      [] c = "}" -> "close_curly"

\* struct Token: a kind and an optional lexeme
Token(type, val) == [type |-> type, value |-> val]

\* the keyword check of tokenize on the finished buffer
WordToken(buf) ==
    IF buf = <<"e", "x", "i", "t">> THEN Token("exit", None)
    ELSE IF buf = <<"d", "e", "f">> THEN Token("def", None)
    ELSE IF buf = <<"i", "f">> THEN Token("if_", None)
    ELSE Token("ident", Some(buf))

\* Tokenizer::peak
Tokenizer_peak(offset) ==
    IF m_src_index + offset >= Len(m_src) THEN None
    ELSE Some(m_src[m_src_index + offset + 1])

\* the index at which an inner loop `while (peak() && cls(peak())) consume()`
\* started at index i stops
RECURSIVE RunEnd(_, _, _)
RunEnd(src, i, alnum) ==
    IF i < Len(src) /\ (IF alnum THEN isalnum(src[i + 1]) ELSE isdigit(src[i + 1]))
    THEN RunEnd(src, i + 1, alnum)
    ELSE i

\* the characters consumed into buf: C++ indices from .. to - 1
Consumed(src, from, to) == SubSeq(src, from + 1, to)

\* the source texts
SrcPieces ==
    { <<"e", "x", "i", "t">>, <<"d", "e", "f">>, <<"i", "f">>,
      <<"e", "l", "i", "f">>, <<"e", "l", "s", "e">>,
      <<"x">>, <<"1">>, <<" ">>, <<"@">>, <<"_">> }
    \cup { <<c>> : c \in PunctChars }

RECURSIVE Sources(_)
Sources(n) ==
    IF n = 0 THEN { <<>> }
    ELSE LET S == Sources(n - 1) IN S \cup { s \o p : s \in S, p \in SrcPieces }

\* the phases that do not run
TokIdle == m_src = <<>> /\ m_src_index = 0 /\ tokens = <<>>
ParIdle ==
    /\ m_tokens = <<>> /\ m_index = 0 /\ heap = <<>> /\ prog = <<>>
    /\ expr_res = None /\ stmt_start = <<>> /\ src_prog = <<>> /\ dropped = {}
ArenaIdle == m_size = 0 /\ m_offset = 0 /\ regions = <<>>
GenIdle ==
    /\ m_prog = <<>> /\ m_output = <<>> /\ m_stack_loc = 0 /\ m_vars = <<>>
    /\ m_scopes = <<>> /\ frames = <<>> /\ ndebug = FALSE /\ def_slot = <<>>

\* Tokenizer::Tokenizer
InitTok ==
    /\ pc = "tokenize"
    /\ cerr = <<>>
    /\ m_src \in Sources(MaxPieces)
    /\ m_src_index = 0
    /\ tokens = <<>>
    /\ ParIdle /\ GenIdle /\ ArenaIdle

\* tokenize, loop body, branch std::isalpha
TokWord ==
    /\ pc = "tokenize"
    /\ has_value(Tokenizer_peak(0))
    /\ isalpha(value(Tokenizer_peak(0)))
    /\ LET end == RunEnd(m_src, m_src_index + 1, TRUE)
           buf == Consumed(m_src, m_src_index, end)
       IN /\ tokens' = Append(tokens, WordToken(buf))
          /\ m_src_index' = end
    /\ UNCHANGED <<pc, cerr, m_src, parVars, genVars, arenaVars>>

\* tokenize, loop body, branch std::isdigit
TokInt ==
    /\ pc = "tokenize"
    /\ has_value(Tokenizer_peak(0))
    /\ ~isalpha(value(Tokenizer_peak(0)))
    /\ isdigit(value(Tokenizer_peak(0)))
    /\ LET end == RunEnd(m_src, m_src_index + 1, FALSE)
           buf == Consumed(m_src, m_src_index, end)
       IN /\ tokens' = Append(tokens, Token("int_lit", Some(buf)))
          /\ m_src_index' = end
    /\ UNCHANGED <<pc, cerr, m_src, parVars, genVars, arenaVars>>

\* tokenize, loop body, the ten single-character branches
TokPunct ==
    /\ pc = "tokenize"
    /\ has_value(Tokenizer_peak(0))
    /\ value(Tokenizer_peak(0)) \in PunctChars
    /\ tokens' = Append(tokens, Token(PunctType(value(Tokenizer_peak(0))), None))
    /\ m_src_index' = m_src_index + 1
    /\ UNCHANGED <<pc, cerr, m_src, parVars, genVars, arenaVars>>

\* tokenize, loop body, branch std::isspace
TokSpace ==
    /\ pc = "tokenize"
    /\ has_value(Tokenizer_peak(0))
    /\ isspace(value(Tokenizer_peak(0)))
    /\ m_src_index' = m_src_index + 1
    /\ UNCHANGED <<pc, cerr, m_src, tokens, parVars, genVars, arenaVars>>

\* what the final else branch of the loop does to (pc, m_src_index): it
\* writes a diagnostic and neither consumes the character nor exits
BadCharStep == [pc |-> "tokenize", index |-> m_src_index]

\* tokenize, loop body, final else: any other character
TokBad ==
    /\ pc = "tokenize"
    /\ has_value(Tokenizer_peak(0))
    /\ LET c == value(Tokenizer_peak(0))
       IN ~isalpha(c) /\ ~isdigit(c) /\ c \notin PunctChars /\ ~isspace(c)
    /\ cerr' = IF Len(cerr) < MaxErr THEN Append(cerr, "Messed Up") ELSE cerr
    /\ pc' = BadCharStep.pc
    /\ m_src_index' = BadCharStep.index
    /\ UNCHANGED <<m_src, tokens, parVars, genVars, arenaVars>>

\* tokenize, loop exit: reset the index and return the tokens
TokReturn ==
    /\ pc = "tokenize"
    /\ ~has_value(Tokenizer_peak(0))
    /\ m_src_index' = 0
    /\ pc' = "tokenized"
    /\ UNCHANGED <<cerr, m_src, tokens, parVars, genVars, arenaVars>>

NextTok == TokWord \/ TokInt \/ TokPunct \/ TokSpace \/ TokBad \/ TokReturn

SpecTok == InitTok /\ [][NextTok]_vars

\* the next unconsumed character is none the tokenizer knows
BadCharNext ==
    /\ has_value(Tokenizer_peak(0))
    /\ value(Tokenizer_peak(0)) \notin
           AlphaChars \cup DigitChars \cup SpaceChars \cup PunctChars

\* C1: whenever the next unconsumed character is not whitespace, not
\* alphabetic, not a digit and not one of ; ( ) = + * - / { }, tokenization
\* ends there in a fatal lexical error: the process exits and no token
\* sequence is returned.
C1_BadCharIsFatal ==
    [][(pc = "tokenize" /\ BadCharNext) => pc' = "exit_failure"]_vars

\* the maximal run of alphanumerics that starts at C++ index i of src
MaximalRun(src, i) ==
    LET j == CHOOSE j \in (i + 1)..Len(src) :
                 /\ \A k \in (i + 1)..j : isalnum(src[k])
                 /\ j = Len(src) \/ ~isalnum(src[j + 1])
    IN SubSeq(src, i + 1, j)

\* the token the language gives a run: the five keywords, else an identifier
KeywordRuns ==
    << <<"e", "x", "i", "t">>, <<"d", "e", "f">>, <<"i", "f">>,
       <<"e", "l", "i", "f">>, <<"e", "l", "s", "e">> >>
KeywordTypes == <<"exit", "def", "if_", "elif", "else_">>
RunToken(run) ==
    IF \E k \in 1..5 : KeywordRuns[k] = run
    THEN Token(KeywordTypes[CHOOSE k \in 1..5 : KeywordRuns[k] = run], None)
    ELSE Token("ident", Some(run))

\* C2: for every maximal run of an alphabetic character followed by
\* alphanumerics the emitted token is the keyword token, without lexeme,
\* when the run is one of exit, def, if, elif, else, and otherwise Ident
\* with the run as lexeme; only IntLit and Ident tokens carry a lexeme.
C2_KeywordOrIdent ==
    [][(pc = "tokenize" /\ has_value(Tokenizer_peak(0))
            /\ isalpha(value(Tokenizer_peak(0)))) =>
           /\ tokens' = Append(tokens, RunToken(MaximalRun(m_src, m_src_index)))
           /\ \A i \in 1..Len(tokens') :
                  has_value(tokens'[i].value) => tokens'[i].type \in {"int_lit", "ident"}]_vars

(***************************************************************************)
(* PARSER                                                                  *)
(*                                                                         *)
(* The arena is a heap of cells; a pointer is the 1-based index of its    *)
(* cell and 0 is the null pointer.  A cell is a record whose `type` names *)
(* the node struct; the alternative a std::variant of pointers holds is   *)
(* the type of the cell it points at.  The arena's buffer comes from one  *)
(* malloc of 4 MiB, which on the Linux target is fresh zero-filled        *)
(* memory: a NodeScope's std::vector starts empty and a node's Token      *)
(* starts without a lexeme, although no constructor runs.                 *)
(*                                                                         *)
(* The parsing methods are operators on the parser's state                *)
(* ps = [m_index, heap, iters]; each gives [ps, res, fatal]: the state    *)
(* after the                                                               *)
(* call, the std::optional it returns and, when the call ended in         *)
(* exit(EXIT_FAILURE), the diagnostic written before it.                   *)
(***************************************************************************)
\* the quotes of the diagnostics: the apostrophe, and the backquote, which a
\* string of this language cannot hold and BQ stands for
AP == "'"
BQ == "<backquote>"
\* the diagnostic that names a token between quotes
Expected(quote, tok) == "Expected " \o quote \o tok \o quote

Ok(ps, res) == [ps |-> ps, res |-> res, fatal |-> None]
Fatal(ps, msg) == [ps |-> ps, res |-> None, fatal |-> Some(msg)]
IsFatal(r) == has_value(r.fatal)

\* ArenaAllocator::alloc<T>, with the stores that fill the node in
Alloc(ps, cell) ==
    [ps |-> [ps EXCEPT !.heap = Append(@, cell)], ptr |-> Len(ps.heap) + 1]

\* a bin_prec that gives the four operators one precedence
bin_prec_flat(type) ==
    IF type \in {"minus", "plus", "fslash", "star"} THEN Some(0) ELSE None

\* bin_prec
bin_prec(type) ==
    CASE type \in {"minus", "plus"} -> Some(0)
      [] type \in {"fslash", "star"} -> Some(1)
      [] OTHER -> None

\* Parser::peak
Parser_peak(ps, offset) ==
    IF ps.m_index + offset >= Len(m_tokens) THEN None
    ELSE Some(m_tokens[ps.m_index + offset + 1])

\* the test `peak(offset).has_value() && peak(offset).value().type == type`
PeakIs(ps, offset, type) ==
    /\ has_value(Parser_peak(ps, offset))
    /\ value(Parser_peak(ps, offset)).type = type

\* a consume that moves the cursor two tokens on
Parser_consume_twice(ps) == [ps EXCEPT !.m_index = @ + 2]

\* Parser::consume: the state after it (the token is Parser_peak(ps, 0))
Parser_consume(ps) == [ps EXCEPT !.m_index = @ + 1]

\* one iteration of the loop of `loop` that went on to the next one: the
\* cursor when it started and when it ended
Iteration(loop, ps, after) == [loop |-> loop, from |-> ps.m_index, to |-> after.m_index]

\* a try_consume(type, err_msg) that returns an empty optional instead of
\* exiting
try_consume_or_skip(ps, type, err_msg) ==
    IF PeakIs(ps, 0, type)
    THEN Ok(Parser_consume(ps), Parser_peak(ps, 0))
    ELSE Ok(ps, None)

\* Parser::try_consume(type, err_msg)
try_consume_or_exit(ps, type, err_msg) ==
    IF PeakIs(ps, 0, type)
    THEN Ok(Parser_consume(ps), Parser_peak(ps, 0))
    ELSE Fatal(ps, err_msg)

\* Parser::try_consume(type)
try_consume(ps, type) ==
    IF PeakIs(ps, 0, type)
    THEN Ok(Parser_consume(ps), Parser_peak(ps, 0))
    ELSE Ok(ps, None)

\* the node struct a binary operator token makes
BinNodeType(type) ==
    CASE type = "plus" -> "NodeBinExprAdd"
      [] type = "star" -> "NodeBinExprMult"
      [] type = "minus" -> "NodeBinExprSub"
      [] type = "fslash" -> "NodeBinExprDiv"

\* a call of one of the parsing methods, which call one another; arg holds
\* the arguments after ps
RECURSIVE Call(_, _, _)

\* `auto r = <call>; <rest>`: the call is made once and rest reads its result
Bind(r, rest(_)) == CHOOSE out \in { rest(x) : x \in {r} } : TRUE

\* Parser::parse_term
parse_term(ps) ==
    LET int_lit == try_consume(ps, "int_lit")
        ident == try_consume(ps, "ident")
        open_paren == try_consume(ps, "open_paren")
    IN IF has_value(int_lit.res) THEN
           LET a == Alloc(int_lit.ps, [type |-> "NodeTermIntLit", int_lit |-> value(int_lit.res)])
               t == Alloc(a.ps, [type |-> "NodeTerm", var |-> a.ptr])
           IN Ok(t.ps, Some(t.ptr))
       ELSE IF has_value(ident.res) THEN
           LET a == Alloc(ident.ps, [type |-> "NodeTermIdent", ident |-> value(ident.res)])
               t == Alloc(a.ps, [type |-> "NodeTerm", var |-> a.ptr])
           IN Ok(t.ps, Some(t.ptr))
       ELSE IF has_value(open_paren.res) THEN
           Bind(Call("parse_expr", open_paren.ps, 0), LAMBDA expr :
               LET close == try_consume_or_exit(expr.ps, "close_paren", Expected(BQ, ")"))
                   a == Alloc(close.ps, [type |-> "NodeTermParen", expr |-> value(expr.res)])
                   t == Alloc(a.ps, [type |-> "NodeTerm", var |-> a.ptr])
               IN IF IsFatal(expr) THEN expr
                  ELSE IF ~has_value(expr.res) THEN Fatal(expr.ps, "Expected expression")
                  ELSE IF IsFatal(close) THEN close
                  ELSE Ok(t.ps, Some(t.ptr)))
       ELSE Ok(ps, None)

\* a left child that is the slot expr_lhs itself
LhsChild_same_slot(expr_lhs, expr_lhs2) == expr_lhs

\* add->lhs = expr_lhs2: the left child of the new binary node
LhsChild(expr_lhs, expr_lhs2) == expr_lhs2

\* Parser::parse_expr, the while (true) loop with expr_lhs allocated
parse_expr_loop(ps, min_prec, expr_lhs) ==
    LET curr_token == Parser_peak(ps, 0)
        prec == IF has_value(curr_token) THEN bin_prec(value(curr_token).type) ELSE None
    IN IF ~has_value(curr_token) THEN Ok(ps, Some(expr_lhs))
       ELSE IF ~has_value(prec) \/ value(prec) < min_prec THEN Ok(ps, Some(expr_lhs))
       ELSE
           Bind(Call("parse_expr", Parser_consume(ps), value(prec) + 1), LAMBDA expr_rhs :
               LET op == value(curr_token)
                   expr == Alloc(expr_rhs.ps, [type |-> "NodeBinExpr", var |-> 0])
                   expr_lhs2 == Alloc(expr.ps, [type |-> "NodeExpr", var |-> 0])
                   bin == Alloc(expr_lhs2.ps,
                                [type |-> BinNodeType(op.type),
                                 lhs |-> LhsChild(expr_lhs, expr_lhs2.ptr),
                                 rhs |-> value(expr_rhs.res)])
                   \* expr_lhs2->var = expr_lhs->var; expr->var = bin;
                   \* expr_lhs->var = expr
                   h == bin.ps.heap
                   linked == [h EXCEPT ![expr_lhs2.ptr].var = h[expr_lhs].var,
                                       ![expr.ptr].var = bin.ptr,
                                       ![expr_lhs].var = expr.ptr]
               IN IF IsFatal(expr_rhs) THEN expr_rhs
                  ELSE IF ~has_value(expr_rhs.res)
                       THEN Fatal(expr_rhs.ps, "Unable to parse expression")
                  ELSE Call("parse_expr_loop",
                            [bin.ps EXCEPT !.heap = linked,
                                           !.iters = Append(@, Iteration("parse_expr", ps, bin.ps))],
                            <<min_prec, expr_lhs>>))

\* Parser::parse_expr
parse_expr(ps, min_prec) ==
    Bind(Call("parse_term", ps, 0), LAMBDA term_lhs :
        LET expr_lhs == Alloc(term_lhs.ps,
                              [type |-> "NodeExpr", var |-> value(term_lhs.res)])
        IN IF IsFatal(term_lhs) THEN term_lhs
           ELSE IF ~has_value(term_lhs.res) THEN Ok(term_lhs.ps, None)
           ELSE Call("parse_expr_loop", expr_lhs.ps, <<min_prec, expr_lhs.ptr>>))

\* Parser::parse_scope, the loop `while (auto stmt = parse_stmt())`
parse_scope_loop(ps, scope) ==
    Bind(Call("parse_stmt", ps, 0), LAMBDA stmt :
        IF IsFatal(stmt) THEN stmt
        ELSE IF ~has_value(stmt.res) THEN Ok(stmt.ps, None)
        ELSE Call("parse_scope_loop",
                  [stmt.ps EXCEPT !.heap[scope].stmts = Append(@, value(stmt.res)),
                                  !.iters = Append(@, Iteration("parse_scope", ps, stmt.ps))],
                  scope))

\* Parser::parse_scope
parse_scope(ps) ==
    LET open == try_consume(ps, "open_curly")
        scope == Alloc(open.ps, [type |-> "NodeScope", stmts |-> <<>>])
    IN IF ~has_value(open.res) THEN Ok(ps, None)
       ELSE Bind(Call("parse_scope_loop", scope.ps, scope.ptr), LAMBDA body :
                LET close == try_consume_or_exit(body.ps, "close_curly", Expected(BQ, "}"))
                    stmt == Alloc(close.ps, [type |-> "NodeStmt", var |-> scope.ptr])
                IN IF IsFatal(body) THEN body
                   ELSE IF IsFatal(close) THEN close
                   ELSE Ok(stmt.ps, Some(scope.ptr)))

\* Parser::parse_if_pred, branch `elif`, entered with the `elif` consumed
parse_if_pred_elif(ps) ==
    LET open == try_consume_or_exit(ps, "open_paren", Expected(BQ, "("))
        elif == Alloc(open.ps, [type |-> "NodeIfPredElif",
                                expr |-> 0, scope |-> 0, pred |-> None])
    IN IF IsFatal(open) THEN open
       ELSE
       Bind(Call("parse_expr", elif.ps, 0), LAMBDA expr :
       LET close == try_consume_or_exit(expr.ps, "close_paren", Expected(BQ, ")"))
       IN IF IsFatal(expr) THEN expr
          ELSE IF ~has_value(expr.res) THEN Fatal(expr.ps, "Expected Expression")
          ELSE IF IsFatal(close) THEN close
          ELSE
          Bind(Call("parse_scope", close.ps, 0), LAMBDA scope :
          IF IsFatal(scope) THEN scope
          ELSE IF ~has_value(scope.res) THEN Fatal(scope.ps, "Expected Scope")
          ELSE
          Bind(Call("parse_if_pred", scope.ps, 0), LAMBDA tail :
          LET filled == [tail.ps EXCEPT !.heap[elif.ptr] =
                             [type |-> "NodeIfPredElif", expr |-> value(expr.res),
                              scope |-> value(scope.res), pred |-> tail.res]]
              pred == Alloc(filled, [type |-> "NodeIfPred", var |-> elif.ptr])
          IN IF IsFatal(tail) THEN tail
             ELSE Ok(pred.ps, Some(pred.ptr)))))

\* Parser::parse_if_pred, branch `else`, entered with the `else` consumed
parse_if_pred_else(ps) ==
    LET else_ == Alloc(ps, [type |-> "NodeIfPredElse", scope |-> 0])
    IN Bind(Call("parse_scope", else_.ps, 0), LAMBDA scope :
           LET filled == [scope.ps EXCEPT !.heap[else_.ptr].scope = value(scope.res)]
               pred == Alloc(filled, [type |-> "NodeIfPred", var |-> else_.ptr])
           IN IF IsFatal(scope) THEN scope
              ELSE IF ~has_value(scope.res) THEN Fatal(scope.ps, "Expected Scope")
              ELSE Ok(pred.ps, Some(pred.ptr)))

\* Parser::parse_if_pred
parse_if_pred(ps) ==
    IF has_value(try_consume(ps, "elif").res)
    THEN parse_if_pred_elif(try_consume(ps, "elif").ps)
    ELSE IF has_value(try_consume(ps, "else_").res)
    THEN parse_if_pred_else(try_consume(ps, "else_").ps)
    ELSE Ok(ps, None)

\* Parser::parse_stmt, branch `exit` `(`
parse_stmt_exit(ps) ==
    LET stmt_exit == Alloc(Parser_consume(Parser_consume(ps)),
                           [type |-> "NodeStmtExit", expr |-> 0])
    IN Bind(Call("parse_expr", stmt_exit.ps, 0), LAMBDA node_expr :
           LET close == try_consume_or_exit(node_expr.ps, "close_paren", Expected(AP, ")"))
               semi == try_consume_or_exit(close.ps, "semi", Expected(AP, ";"))
               filled == [semi.ps EXCEPT
                              !.heap[stmt_exit.ptr].expr = value(node_expr.res)]
               stmt == Alloc(filled, [type |-> "NodeStmt", var |-> stmt_exit.ptr])
           IN IF IsFatal(node_expr) THEN node_expr
              ELSE IF ~has_value(node_expr.res)
                   THEN Fatal(node_expr.ps, "Invalid expression")
              ELSE IF IsFatal(close) THEN close
              ELSE IF IsFatal(semi) THEN semi
              ELSE Ok(stmt.ps, Some(stmt.ptr)))

\* Parser::parse_stmt, branch `def` ident `=`
parse_stmt_def(ps) ==
    LET stmt_def == Alloc(Parser_consume(ps), [type |-> "NodeStmtDef",
                              ident |-> value(Parser_peak(ps, 1)), expr |-> 0])
    IN Bind(Call("parse_expr", Parser_consume(Parser_consume(stmt_def.ps)), 0),
            LAMBDA expr :
           LET semi == try_consume_or_exit(expr.ps, "semi", Expected(AP, ";"))
               filled == [semi.ps EXCEPT !.heap[stmt_def.ptr].expr = value(expr.res)]
               stmt == Alloc(filled, [type |-> "NodeStmt", var |-> stmt_def.ptr])
           IN IF IsFatal(expr) THEN expr
              ELSE IF ~has_value(expr.res) THEN Fatal(expr.ps, "Invalid Expression")
              ELSE IF IsFatal(semi) THEN semi
              ELSE Ok(stmt.ps, Some(stmt.ptr)))

\* Parser::parse_stmt, branch `{`
parse_stmt_scope(ps) ==
    Bind(Call("parse_scope", ps, 0), LAMBDA scope :
        LET stmt == Alloc(scope.ps, [type |-> "NodeStmt", var |-> value(scope.res)])
        IN IF IsFatal(scope) THEN scope
           ELSE IF ~has_value(scope.res) THEN Fatal(scope.ps, "Invalid Scope")
           ELSE Ok(stmt.ps, Some(stmt.ptr)))

\* Parser::parse_stmt, branch `if`, entered with the `if` consumed
parse_stmt_if(ps) ==
    LET open == try_consume_or_exit(ps, "open_paren", Expected(BQ, "("))
        stmt_if == Alloc(open.ps, [type |-> "NodeStmtIf",
                                   expr |-> 0, scope |-> 0, pred |-> None])
    IN IF IsFatal(open) THEN open
       ELSE
       Bind(Call("parse_expr", stmt_if.ps, 0), LAMBDA expr :
       LET close == try_consume_or_exit(expr.ps, "close_paren", Expected(BQ, ")"))
       IN IF IsFatal(expr) THEN expr
          ELSE IF ~has_value(expr.res) THEN Fatal(expr.ps, "Invalid Expression")
          ELSE IF IsFatal(close) THEN close
          ELSE
          Bind(Call("parse_scope", close.ps, 0), LAMBDA scope :
          IF IsFatal(scope) THEN scope
          ELSE IF ~has_value(scope.res) THEN Fatal(scope.ps, "Invalid (Expected) Scope")
          ELSE
          Bind(Call("parse_if_pred", scope.ps, 0), LAMBDA tail :
          LET filled == [tail.ps EXCEPT !.heap[stmt_if.ptr] =
                             [type |-> "NodeStmtIf", expr |-> value(expr.res),
                              scope |-> value(scope.res), pred |-> tail.res]]
              stmt == Alloc(filled, [type |-> "NodeStmt", var |-> stmt_if.ptr])
          IN IF IsFatal(tail) THEN tail
             ELSE Ok(stmt.ps, Some(stmt.ptr)))))

\* Parser::parse_stmt
parse_stmt(ps) ==
    IF ~has_value(Parser_peak(ps, 0)) THEN Ok(ps, None)
    ELSE IF PeakIs(ps, 0, "exit") /\ PeakIs(ps, 1, "open_paren") THEN parse_stmt_exit(ps)
    ELSE IF PeakIs(ps, 0, "def") /\ PeakIs(ps, 1, "ident") /\ PeakIs(ps, 2, "eq")
         THEN parse_stmt_def(ps)
    ELSE IF PeakIs(ps, 0, "open_curly") THEN parse_stmt_scope(ps)
    ELSE IF has_value(try_consume(ps, "if_").res)
         THEN parse_stmt_if(try_consume(ps, "if_").ps)
    ELSE Ok(ps, None)

\* the method a call names, run on the state and arguments it is handed
Dispatch(method, ps, arg) ==
    CASE method = "parse_term" -> parse_term(ps)
      [] method = "parse_expr" -> parse_expr(ps, arg)
      [] method = "parse_expr_loop" -> parse_expr_loop(ps, arg[1], arg[2])
      [] method = "parse_scope" -> parse_scope(ps)
      [] method = "parse_scope_loop" -> parse_scope_loop(ps, arg)
      [] method = "parse_if_pred" -> parse_if_pred(ps)
      [] method = "parse_stmt" -> parse_stmt(ps)

Call(method, ps, arg) ==
    CHOOSE out \in { Dispatch(method, p, a) : p \in {ps}, a \in {arg} } : TRUE

\* the parser's state as the methods see it; iters is the history of the
\* loop iterations of parse_scope and parse_expr that went on to a next
\* iteration, made since the method was entered
ParserState == [m_index |-> m_index, heap |-> heap, iters |-> <<>>]

(***************************************************************************)
(* The AST a pointer stands for, as a value: an expression is             *)
(* <<"IntLit", lexeme>>, <<"Ident", lexeme>>, <<"Paren", e>> or           *)
(* <<op, lhs, rhs>> with op one of "Add", "Mult", "Sub", "Div"; a         *)
(* statement is <<"Exit", e>>, <<"Def", name, e>>, <<"Scope", stmts>> or  *)
(* <<"If", e, scope, pred>>, and an if-predicate <<"Elif", e, scope,      *)
(* pred>> or <<"Else", scope>>, with pred a std::optional.                *)
(***************************************************************************)
BinTag(type) ==
    CASE type = "NodeBinExprAdd" -> "Add"
      [] type = "NodeBinExprMult" -> "Mult"
      [] type = "NodeBinExprSub" -> "Sub"
      [] type = "NodeBinExprDiv" -> "Div"

RECURSIVE ExprTree(_, _), StmtTree(_, _), ScopeTree(_, _), PredTree(_, _)
\* struct NodeExpr, NodeTerm, NodeBinExpr and their alternatives
ExprTree(h, p) ==
    LET node == h[h[p].var]       \* the NodeTerm or NodeBinExpr
        alt == h[node.var]        \* the alternative it holds
    IN IF node.type = "NodeTerm" THEN
           CASE alt.type = "NodeTermIntLit" -> <<"IntLit", value(alt.int_lit.value)>>
             [] alt.type = "NodeTermIdent" -> <<"Ident", value(alt.ident.value)>>
             [] alt.type = "NodeTermParen" -> <<"Paren", ExprTree(h, alt.expr)>>
       ELSE <<BinTag(alt.type), ExprTree(h, alt.lhs), ExprTree(h, alt.rhs)>>

\* struct NodeScope
ScopeTree(h, p) ==
    <<"Scope", [i \in 1..Len(h[p].stmts) |-> StmtTree(h, h[p].stmts[i])]>>

\* struct NodeIfPred, NodeIfPredElif, NodeIfPredElse
PredTree(h, o) ==
    IF ~has_value(o) THEN None
    ELSE LET alt == h[h[value(o)].var]
         IN IF alt.type = "NodeIfPredElif"
            THEN Some(<<"Elif", ExprTree(h, alt.expr), ScopeTree(h, alt.scope),
                        PredTree(h, alt.pred)>>)
            ELSE Some(<<"Else", ScopeTree(h, alt.scope)>>)

\* struct NodeStmt and its alternatives
StmtTree(h, p) ==
    LET alt == h[h[p].var]
    IN CASE alt.type = "NodeStmtExit" -> <<"Exit", ExprTree(h, alt.expr)>>
         [] alt.type = "NodeStmtDef" ->
                <<"Def", value(alt.ident.value), ExprTree(h, alt.expr)>>
         [] alt.type = "NodeScope" -> ScopeTree(h, h[p].var)
         [] alt.type = "NodeStmtIf" ->
                <<"If", ExprTree(h, alt.expr), ScopeTree(h, alt.scope),
                  PredTree(h, alt.pred)>>

\* struct NodeProg
ProgTree(h, stmts) == [i \in 1..Len(stmts) |-> StmtTree(h, stmts[i])]

(***************************************************************************)
(* parse_expr on its own: the token sequences  term (op term)*  with up   *)
(* to MaxTerms terms and up to two pairs of parentheses, each around a    *)
(* run of terms.                                                           *)
(***************************************************************************)
OpTypes == {"plus", "minus", "star", "fslash"}
TermNames == <<"a", "b", "c", "d", "e", "f">>
\* the term at position k: an identifier at odd k, an integer literal at even k
TermToken(k) ==
    IF k % 2 = 1 THEN Token("ident", Some(<<TermNames[k]>>))
    ELSE Token("int_lit", Some(<<TermNames[k]>>))

Copies(n, tok) == [i \in 1..n |-> tok]
Among(r1, r2, P(_)) == (IF P(r1) THEN 1 ELSE 0) + (IF P(r2) THEN 1 ELSE 0)

RECURSIVE ExprTokens(_, _, _, _, _)
\* the tokens of terms k..n with operators ops and parentheses around r1, r2
ExprTokens(k, n, ops, r1, r2) ==
    LET opens == Among(r1, r2, LAMBDA r : r[1] = k)
        closes == Among(r1, r2, LAMBDA r : r[2] = k)
        term == Copies(opens, Token("open_paren", None)) \o <<TermToken(k)>>
                    \o Copies(closes, Token("close_paren", None))
    IN IF k = n THEN term
       ELSE term \o <<Token(ops[k], None)>> \o ExprTokens(k + 1, n, ops, r1, r2)

Ranges(n) == { <<0, 0>> } \cup { <<i, j>> : i \in 1..n, j \in 1..n }
ExprInputs ==
    UNION { { ExprTokens(1, n, ops, r1, r2) :
                ops \in [1..(n - 1) -> OpTypes],
                r1 \in { r \in Ranges(n) : r[1] <= r[2] },
                r2 \in { r \in Ranges(n) : r[1] <= r[2] } } : n \in 1..MaxTerms }

\* Parser::Parser, for a call of parse_expr
InitExpr ==
    /\ pc = "parse_expr"
    /\ cerr = <<>>
    /\ m_tokens \in ExprInputs
    /\ m_index = 0 /\ heap = <<>> /\ prog = <<>>
    /\ expr_res = None /\ stmt_start = <<>> /\ src_prog = <<>> /\ dropped = {}
    /\ TokIdle /\ GenIdle /\ ArenaIdle

\* a call parse_expr(0), or parse_expr() with the default min_prec
ParseExprCall ==
    /\ pc = "parse_expr"
    /\ \E r \in {Call("parse_expr", ParserState, 0)} :
          /\ m_index' = r.ps.m_index
          /\ heap' = r.ps.heap
          /\ expr_res' = r.res
          /\ pc' = IF IsFatal(r) THEN "exit_failure" ELSE "expr_parsed"
          /\ cerr' = IF IsFatal(r) THEN Append(cerr, value(r.fatal)) ELSE cerr
    /\ UNCHANGED <<m_tokens, prog, stmt_start, src_prog, dropped, tokVars, genVars, arenaVars>>

NextExpr == ParseExprCall

SpecExpr == InitExpr /\ [][NextExpr]_vars

(***************************************************************************)
(* The reference reading of an expression: its root is the last operator  *)
(* of lowest precedence outside all parentheses; with no such operator    *)
(* the expression is one term.                                             *)
(***************************************************************************)
RefPrec(type) == IF type \in {"plus", "minus"} THEN 0 ELSE 1
RefTag(type) ==
    CASE type = "plus" -> "Add" [] type = "minus" -> "Sub"
      [] type = "star" -> "Mult" [] type = "fslash" -> "Div"
ParenDepth(t, k) ==
    Cardinality({ i \in 1..(k - 1) : t[i].type = "open_paren" })
        - Cardinality({ i \in 1..(k - 1) : t[i].type = "close_paren" })
TopOps(t) == { k \in 1..Len(t) : t[k].type \in OpTypes /\ ParenDepth(t, k) = 0 }
RootOp(t) ==
    CHOOSE k \in TopOps(t) :
        \A j \in TopOps(t) :
            \/ RefPrec(t[j].type) > RefPrec(t[k].type)
            \/ RefPrec(t[j].type) = RefPrec(t[k].type) /\ j <= k
RECURSIVE RefTree(_)
RefTree(t) ==
    IF TopOps(t) # {} THEN
        <<RefTag(t[RootOp(t)].type), RefTree(SubSeq(t, 1, RootOp(t) - 1)),
          RefTree(SubSeq(t, RootOp(t) + 1, Len(t)))>>
    ELSE IF t[1].type = "open_paren" THEN <<"Paren", RefTree(SubSeq(t, 2, Len(t) - 1))>>
    ELSE IF t[1].type = "int_lit" THEN <<"IntLit", value(t[1].value)>>
    ELSE <<"Ident", value(t[1].value)>>

\* the tokens of  a op1 b op2 c  and of  ( a op1 b ) op2 c
Flat3(op1, op2) == ExprTokens(1, 3, <<op1, op2>>, <<0, 0>>, <<0, 0>>)
Paren3(op1, op2) == ExprTokens(1, 3, <<op1, op2>>, <<1, 2>>, <<0, 0>>)
TermA == <<"Ident", <<"a">>>>
TermB == <<"IntLit", <<"b">>>>
TermC == <<"Ident", <<"c">>>>
ParsedTree == ExprTree(heap, value(expr_res))

\* C3: parse_expr(0) on  term (op term)*  returns, with every token
\* consumed, the tree in which * and / bind tighter than + and -, operators
\* of equal precedence group to the left and a parenthesised sub-expression
\* is one term; a + b * c is Add(a, Mul(b, c)), a - b - c is
\* Sub(Sub(a, b), c), a / b * c is Mul(Div(a, b), c) and (a + b) * c is
\* Mul(Add(a, b), c).
C3_PrecedenceClimbing ==
    pc # "parse_expr" =>
        /\ pc = "expr_parsed"
        /\ has_value(expr_res)
        /\ m_index = Len(m_tokens)
        /\ ParsedTree = RefTree(m_tokens)
        /\ m_tokens = Flat3("plus", "star") =>
               ParsedTree = <<"Add", TermA, <<"Mult", TermB, TermC>>>>
        /\ m_tokens = Flat3("minus", "minus") =>
               ParsedTree = <<"Sub", <<"Sub", TermA, TermB>>, TermC>>
        /\ m_tokens = Flat3("fslash", "star") =>
               ParsedTree = <<"Mult", <<"Div", TermA, TermB>>, TermC>>
        /\ m_tokens = Paren3("plus", "star") =>
               ParsedTree = <<"Mult", <<"Paren", <<"Add", TermA, TermB>>>>, TermC>>

\* (a + b) * c has been parsed into Mul(Paren(Add(a, b)), c)
C3_Witness ==
    /\ pc = "expr_parsed"
    /\ m_tokens = Paren3("plus", "star")
    /\ ParsedTree = <<"Mult", <<"Paren", <<"Add", TermA, TermB>>>>, TermC>>

(***************************************************************************)
(* parse_prog: the inputs are the well-formed programs of up to MaxNodes  *)
(* statements and clauses (an exit, a def, a scope, an if, an elif or an  *)
(* else each count one), whole, with one token left out or with the       *)
(* parentheses of an exit left out.  Every token of src_prog carries the  *)
(* role it plays in its statement form; m_tokens holds the plain tokens.  *)
(***************************************************************************)
Marked(type, val, role) == [type |-> type, value |-> val, role |-> role]
Form(type, role) == <<Marked(type, None, role)>>
InExpr(type, val) == Marked(type, val, "expr")

\* the expressions  1,  ( x )  and  1 + x
ExprOne == <<InExpr("int_lit", Some(<<"1">>))>>
ExprParen == <<InExpr("open_paren", None), InExpr("ident", Some(<<"x">>)),
               InExpr("close_paren", None)>>
ExprSum == <<InExpr("int_lit", Some(<<"1">>)), InExpr("plus", None),
             InExpr("ident", Some(<<"x">>))>>

ExitForm(e) ==
    Form("exit", "exit") \o Form("open_paren", "exit (") \o e
        \o Form("close_paren", "exit )") \o Form("semi", "exit ;")
DefForm(e) ==
    Form("def", "def") \o <<Marked("ident", Some(<<"x">>), "def ident")>>
        \o Form("eq", "def =") \o e \o Form("semi", "def ;")
ScopeForm(body) == Form("open_curly", "{") \o body \o Form("close_curly", "}")
IfForm(cond, body, tail) ==
    Form("if_", "if") \o Form("open_paren", "if (") \o cond
        \o Form("close_paren", "if )") \o ScopeForm(body) \o tail
ElifForm(cond, body, tail) ==
    Form("elif", "elif") \o Form("open_paren", "elif (") \o cond
        \o Form("close_paren", "elif )") \o ScopeForm(body) \o tail
ElseForm(body) == Form("else_", "else") \o ScopeForm(body)

\* the expressions a program's exits and conditions hold: all of them 1, or
\* all of them ( x ); a def holds 1 + x
Flavours == { ExprOne, ExprParen }
LeafStmts(e) == { DefForm(ExprSum), ExitForm(e) }

RECURSIVE Forests(_, _), StmtForms(_, _), Tails(_, _)
\* the statement sequences of at most n nodes
Forests(e, n) ==
    { <<>> } \cup
    UNION { { s \o f : s \in StmtForms(e, k), f \in Forests(e, n - k) } : k \in 1..n }
\* the statements of at most k >= 1 nodes
StmtForms(e, k) ==
    LeafStmts(e)
    \cup { ScopeForm(f) : f \in Forests(e, k - 1) }
    \cup UNION { { IfForm(e, f, t) : f \in Forests(e, j), t \in Tails(e, k - 1 - j) } :
                 j \in 0..(k - 1) }
\* the elif/else tails of at most m nodes
Tails(e, m) ==
    { <<>> } \cup
    (IF m = 0 THEN {}
     ELSE { ElseForm(f) : f \in Forests(e, m - 1) }
          \cup UNION { { ElifForm(e, f, t) : f \in Forests(e, j),
                                             t \in Tails(e, m - 1 - j) } :
                       j \in 0..(m - 1) })
\* the well-formed programs handed to parse_prog
Programs == UNION { Forests(e, MaxNodes) : e \in Flavours }

\* seq without the tokens at the positions in D
DropAt(seq, D) ==
    [k \in 1..(Len(seq) - Cardinality(D)) |->
        seq[k + Cardinality({ d \in D : d - Cardinality({ e \in D : e < d }) <= k })]]
\* what is left out of a program: nothing, any one token, or both
\* parentheses of one exit statement whose expression has none of its own
\* (exit ( 1 ) ;  becomes  exit 1 ;)
Drops(seq) ==
    { {} } \cup { {d} : d \in 1..Len(seq) }
    \cup { {d, e} : d \in { i \in 1..Len(seq) : /\ seq[i].role = "exit ("
                                                  /\ seq[i + 1].type # "open_paren" },
                    e \in { i \in 1..Len(seq) : seq[i].role = "exit )" } }
Plain(seq) == [i \in 1..Len(seq) |-> Token(seq[i].type, seq[i].value)]

\* Parser::Parser
InitParse ==
    /\ pc = "parse"
    /\ cerr = <<>>
    /\ src_prog \in Programs
    /\ dropped \in Drops(src_prog)
    /\ \A d \in dropped, e \in dropped :
           d < e => \A i \in (d + 1)..(e - 1) : src_prog[i].role = "expr"
    /\ m_tokens = Plain(DropAt(src_prog, dropped))
    /\ m_index = 0 /\ heap = <<>> /\ prog = <<>>
    /\ expr_res = None /\ stmt_start = <<>>
    /\ TokIdle /\ GenIdle /\ ArenaIdle

\* parse_prog, loop body: parse_stmt returns a statement
ParseProgStmt ==
    /\ pc = "parse"
    /\ has_value(Parser_peak(ParserState, 0))
    /\ \E stmt \in {Call("parse_stmt", ParserState, 0)} :
          /\ ~IsFatal(stmt)
          /\ has_value(stmt.res)
          /\ prog' = Append(prog, value(stmt.res))
          /\ stmt_start' = Append(stmt_start, m_index)
          /\ m_index' = stmt.ps.m_index
          /\ heap' = stmt.ps.heap
    /\ UNCHANGED <<pc, cerr, m_tokens, expr_res, src_prog, dropped, tokVars, genVars, arenaVars>>

\* a parse_prog that stops at the statement it cannot parse and returns
NoStmt_returns == [pc |-> "parsed", cerr |-> cerr]

\* what parse_prog does when parse_stmt returns no statement
NoStmt == [pc |-> "exit_failure", cerr |-> Append(cerr, "Invalid Statement")]

\* parse_prog, loop body: parse_stmt returns no statement
ParseProgInvalid ==
    /\ pc = "parse"
    /\ has_value(Parser_peak(ParserState, 0))
    /\ \E stmt \in {Call("parse_stmt", ParserState, 0)} :
          /\ ~IsFatal(stmt)
          /\ ~has_value(stmt.res)
          /\ m_index' = stmt.ps.m_index
          /\ heap' = stmt.ps.heap
    /\ pc' = NoStmt.pc
    /\ cerr' = NoStmt.cerr
    /\ UNCHANGED <<m_tokens, prog, expr_res, stmt_start, src_prog, dropped,
                   tokVars, genVars, arenaVars>>

\* parse_prog, loop body: the process exits inside parse_stmt
ParseProgExit ==
    /\ pc = "parse"
    /\ has_value(Parser_peak(ParserState, 0))
    /\ \E stmt \in {Call("parse_stmt", ParserState, 0)} :
          /\ IsFatal(stmt)
          /\ cerr' = Append(cerr, value(stmt.fatal))
          /\ m_index' = stmt.ps.m_index
          /\ heap' = stmt.ps.heap
    /\ pc' = "exit_failure"
    /\ UNCHANGED <<m_tokens, prog, expr_res, stmt_start, src_prog, dropped,
                   tokVars, genVars, arenaVars>>

\* parse_prog, loop exit: return prog
ParseProgReturn ==
    /\ pc = "parse"
    /\ ~has_value(Parser_peak(ParserState, 0))
    /\ pc' = "parsed"
    /\ UNCHANGED <<cerr, parVars, tokVars, genVars, arenaVars>>

NextParse == ParseProgStmt \/ ParseProgInvalid \/ ParseProgExit \/ ParseProgReturn

SpecParse == InitParse /\ [][NextParse]_vars

\* the alternative a statement holds, by the token it starts with
StmtKind(type) ==
    CASE type = "exit" -> "NodeStmtExit" [] type = "def" -> "NodeStmtDef"
      [] type = "open_curly" -> "NodeScope" [] type = "if_" -> "NodeStmtIf"
      [] OTHER -> "none"

\* parse_prog's loop is at a point where parse_stmt yields no statement
\* although tokens remain
YieldsNoStmt ==
    /\ pc = "parse"
    /\ has_value(Parser_peak(ParserState, 0))
    /\ \E stmt \in {Call("parse_stmt", ParserState, 0)} :
           ~IsFatal(stmt) /\ ~has_value(stmt.res)

\* C4: when parse_prog returns a Program the cursor equals the token count
\* and prog.stmts holds the parsed statements in the order of their first
\* tokens (the first at token 0, each of the kind its first token starts);
\* when parse_stmt yields no statement while tokens remain, parse_prog exits
\* with "Invalid Statement" instead of returning.
C4_ParseProg ==
    /\ [](pc = "parsed" =>
            /\ m_index = Len(m_tokens)
            /\ Len(stmt_start) = Len(prog)
            /\ prog # <<>> => stmt_start[1] = 0
            /\ \A i \in 1..Len(prog), j \in 1..Len(prog) :
                   i < j => stmt_start[i] < stmt_start[j]
            /\ \A i \in 1..Len(prog) :
                   heap[heap[prog[i]].var].type
                       = StmtKind(m_tokens[stmt_start[i] + 1].type))
    /\ [][YieldsNoStmt =>
            /\ pc' = "exit_failure"
            /\ cerr' = Append(cerr, "Invalid Statement")
            /\ prog' = prog]_vars

\* a Program of an exit, a def and a scope has been returned
C4_Witness ==
    /\ pc = "parsed"
    /\ Len(prog) = 3
    /\ { heap[heap[prog[i]].var].type : i \in 1..3 }
           = {"NodeStmtExit", "NodeStmtDef", "NodeScope"}

\* the roles left out of the input, and the last line written to cerr
Missing == { src_prog[d].role : d \in dropped }
LastErr == IF cerr = <<>> THEN "" ELSE cerr[Len(cerr)]
ParseOver == pc \in {"parsed", "exit_failure"}

\* the token a role stands for, as a diagnostic would name it
TokenOf(role) ==
    CASE role \in {"exit (", "if (", "elif ("} -> "("
      [] role \in {"exit )", "if )", "elif )"} -> ")"
      [] role \in {"exit ;", "def ;"} -> ";"
      [] role = "def =" -> "="
      [] role = "def ident" -> "identifier"
      [] OTHER -> role

\* C5 as stated: with any one required token of a statement form missing,
\* parsing exits with the diagnostic Expected '<token>' of the missing token
\* (in either quoting) and returns no Program; so for exit 5; and exit(1.
C5_MissingTokenExpected ==
    (ParseOver /\ dropped # {} /\ "expr" \notin Missing) =>
        /\ pc = "exit_failure"
        /\ \E role \in Missing :
               LastErr \in {Expected(AP, TokenOf(role)), Expected(BQ, TokenOf(role))}

\* the diagnostic of a missing token that the parser names
NamedWhenMissing ==
    [r \in {"exit )", "exit ;", "def ;", "}", "if (", "if )", "elif (", "elif )"} |->
        IF r \in {"exit )", "exit ;", "def ;"}
        THEN Expected(AP, TokenOf(r)) ELSE Expected(BQ, TokenOf(r))]
\* a missing token is inside a scope
InScope ==
    \E d \in dropped :
        Cardinality({ i \in 1..d : src_prog[i].role = "{" })
            > Cardinality({ i \in 1..d : src_prog[i].role = "}" })
\* the token after a missing one opens a parenthesis
ParenFollows == \E d \in dropped : d < Len(src_prog) /\ src_prog[d + 1].type = "open_paren"

\* C5 as amended: with one required token other than the keyword else
\* missing, parsing exits and returns no Program.  The diagnostic names the
\* missing token for a missing ) or ; of exit and def (Expected ')',
\* Expected ';'), for a missing }, for a missing ) of if and elif and, unless
\* the condition starts with a parenthesis of its own, for a missing ( of if
\* and elif (these with backquotes); with that parenthesis the diagnostic is
\* Invalid (Expected) Scope or Expected Scope.  An exit without its ( never
\* gets Expected '(': exit 1 ; exits with Invalid Statement at top level,
\* with the Expected of } inside a scope and with Expected ';' when the
\* expression starts with a parenthesis.  With else missing the scope after
\* it is a statement of its own and a Program is returned.
C5_MissingTokenFatal ==
    (ParseOver /\ dropped # {} /\ "expr" \notin Missing) =>
        /\ Missing # {"else"} => pc = "exit_failure"
        /\ Missing = {"else"} => pc = "parsed"
        /\ \A role \in DOMAIN NamedWhenMissing :
               (Missing = {role} /\ ~(role \in {"if (", "elif ("} /\ ParenFollows)) =>
                   LastErr = NamedWhenMissing[role]
        /\ (Missing = {"if ("} /\ ParenFollows) => LastErr = "Invalid (Expected) Scope"
        /\ (Missing = {"elif ("} /\ ParenFollows) => LastErr = "Expected Scope"
        /\ "exit (" \in Missing =>
               LastErr = IF ParenFollows THEN Expected(AP, ";")
                         ELSE IF InScope THEN Expected(BQ, "}")
                         ELSE "Invalid Statement"

\* exit ( 1 ;  with the ) of exit missing has ended in Expected ')'
C5_Witness ==
    /\ pc = "exit_failure"
    /\ Missing = {"exit )"}
    /\ LastErr = Expected(AP, ")")
    /\ m_tokens = Plain(DropAt(ExitForm(ExprOne), {4}))

(***************************************************************************)
(* GENERATOR                                                               *)
(*                                                                         *)
(* m_output is the text written so far, as the sequence of its lines; a   *)
(* line is the tuple of the pieces streamed into it, without the leading  *)
(* blanks.  A size_t streamed into a line is kept as a number (its        *)
(* decimal form is one-to-one); a size_t below zero by n stands for       *)
(* 2^64 - n.  The generator reads the AST the parser built, in the        *)
(* parser's heap.                                                          *)
(*                                                                         *)
(* frames is the call stack of gen_prog: what is still to run, the        *)
(* innermost call first.  <<"gen_stmt", p>> and <<"gen_expr", p>> are     *)
(* calls about to start, <<"exit_tail", p>>, <<"bin_tail", p>> and        *)
(* <<"end_scope", p>> the rest of a visitor after the calls it made,      *)
(* <<"ret_stmt", p>> the return of gen_stmt and <<"trailer">> the rest of *)
(* gen_prog after its loop.  A bin_tail frame and the frames of a         *)
(* gen_stmt call that is under way also hold, as history, m_stack_loc,    *)
(* m_vars.size(), m_vars and m_scopes at the call.                         *)
(***************************************************************************)
\* the std::string of a sequence of characters
RECURSIVE Str(_)
Str(chars) == IF chars = <<>> THEN "" ELSE chars[1] \o Str(Tail(chars))

\* m_output << pieces << "\n"
EmitLine(out, pieces) == Append(out, pieces)

\* m_output << "    " << op << " " << reg << "\n", where the std::string reg
\* is the sequence of the lines it holds: one line, or more when reg
\* itself contains "\n"
EmitOperand(out, op, reg) == out \o << <<op>> \o reg[1] >> \o Tail(reg)

\* a push that leaves m_stack_loc as it is
push_uncounted(g, reg) ==
    [g EXCEPT !.m_output = EmitOperand(@, "push", reg)]

\* Generator::push on g = [m_output, m_stack_loc]
push(g, reg) ==
    [m_output |-> EmitOperand(g.m_output, "push", reg),
     m_stack_loc |-> g.m_stack_loc + 1]

\* a pop that leaves m_stack_loc as it is
pop_uncounted(g, reg) ==
    [g EXCEPT !.m_output = EmitOperand(@, "pop", reg)]

\* Generator::pop
pop(g, reg) ==
    [m_output |-> EmitOperand(g.m_output, "pop", reg),
     m_stack_loc |-> g.m_stack_loc - 1]

\* the register operands
Reg(name) == << <<name>> >>

\* the value a size_t expression prints as
size_t(v) == IF v < 0 THEN <<"2^64 -", -v>> ELSE v

\* an operand offset that forgets the slot the stack pointer is on
IdentOffset_no_top(stack_loc, var_stack_loc) ==
    size_t((stack_loc - var_stack_loc) * 8)

\* TermVisitor, NodeTermIdent: (gen->m_stack_loc - var.stack_loc - 1) * 8
IdentOffset(stack_loc, var_stack_loc) ==
    size_t((stack_loc - var_stack_loc - 1) * 8)

\* a lookup that sees only the variables of the innermost open scope
find_if_in_scope(vs, name) ==
    LET back == IF m_scopes = <<>> THEN 0 ELSE m_scopes[Len(m_scopes)]
    IN IF \E i \in (back + 1)..Len(vs) : vs[i].name = name
       THEN CHOOSE i \in (back + 1)..Len(vs) : vs[i].name = name
       ELSE 0

\* std::find_if over m_vars by name: the index of the first match, 0 at cend()
find_if(vs, name) ==
    IF \E i \in 1..Len(vs) : vs[i].name = name
    THEN CHOOSE i \in 1..Len(vs) :
             vs[i].name = name /\ \A j \in 1..(i - 1) : vs[j].name # name
    ELSE 0

\* the instruction line of BinExprVisitor for each alternative
BinOpLine(type) ==
    CASE type = "NodeBinExprSub" -> <<"sub rax, rbx">>
      [] type = "NodeBinExprDiv" -> <<"div rbx">>
      [] type = "NodeBinExprAdd" -> <<"add rax, rbx">>
      [] type = "NodeBinExprMult" -> <<"mul rbx">>

\* the first and the last lines gen_prog writes
Header == << <<"global _start">>, <<"_start:">> >>
\* a trailer without the exit status
Trailer_no_status == << <<"mov rax, 60">>, <<"syscall">> >>
Trailer == << <<"mov rax, 60">>, <<"mov rdi, 0">>, <<"syscall">> >>

\* the frame on top of the call stack, and the generator's output state
Top == frames[1]
TopIs(kind) == pc = "gen" /\ frames # <<>> /\ Top[1] = kind
G == [m_output |-> m_output, m_stack_loc |-> m_stack_loc]

(***************************************************************************)
(* The machine stack the emitted lines build when run in order: per slot, *)
(* bottom first, the number of the line that pushed it.                   *)
(***************************************************************************)
RECURSIVE Machine(_, _)
Machine(out, n) ==
    IF n = 0 THEN <<>>
    ELSE LET below == Machine(out, n - 1)
             line == out[n]
         IN IF line # <<>> /\ line[1] = "push" THEN Append(below, n)
            ELSE IF line # <<>> /\ line[1] = "pop"
                 THEN SubSeq(below, 1, Len(below) - 1)
            ELSE IF line # <<>> /\ line[1] = "add rsp, "
                 THEN SubSeq(below, 1, Len(below) - line[2] \div 8)
            ELSE below
MachineStack == Machine(m_output, Len(m_output))

(***************************************************************************)
(* The programs handed to the generator: up to MaxStmts statements, at    *)
(* any depth, over the names x and y, tokenized and parsed; and the        *)
(* end-to-end programs of the specification.                               *)
(***************************************************************************)
Kw(type) == Token(type, None)
Id(name) == Token("ident", Some(<<name>>))
One == Token("int_lit", Some(<<"1">>))
ExitOf(e) == <<Kw("exit"), Kw("open_paren")>> \o e \o <<Kw("close_paren"), Kw("semi")>>
DefOf(name, e) == <<Kw("def"), Id(name), Kw("eq")>> \o e \o <<Kw("semi")>>
\* exit((x));  exit(y + x * 1);  def x = 1;  def y = x + 1;  def x = x + 1;
\* def y = y;
GenLeaves ==
    { ExitOf(<<Kw("open_paren"), Id("x"), Kw("close_paren")>>),
      ExitOf(<<Id("y"), Kw("plus"), Id("x"), Kw("star"), One>>),
      DefOf("x", <<One>>),
      DefOf("y", <<Id("x"), Kw("plus"), One>>),
      DefOf("x", <<Id("x"), Kw("plus"), One>>),
      DefOf("y", <<Id("y")>>) }

RECURSIVE GenPrograms(_)
\* the statement sequences of at most n statements; an if has the form
\* if (1) { ... }
GenPrograms(n) ==
    { <<>> } \cup
    UNION { { s \o rest : s \in IF k = 1 THEN GenLeaves ELSE {},
                          rest \in GenPrograms(n - k) }
            \cup { <<Kw("open_curly")>> \o body \o <<Kw("close_curly")>> \o rest :
                       body \in GenPrograms(k - 1), rest \in GenPrograms(n - k) }
            \cup { <<Kw("if_"), Kw("open_paren"), One, Kw("close_paren"),
                     Kw("open_curly")>> \o body \o <<Kw("close_curly")>> \o rest :
                       body \in GenPrograms(k - 1), rest \in GenPrograms(n - k) } :
            k \in 1..n }

\* the end-to-end programs 1 to 6 of section 8 of the specification; the
\* variable x_inner of program 6 is named z here
Lit(digits) == Token("int_lit", Some(digits))
Scenarios ==
    { ExitOf(<<Lit(<<"0">>)>>),
      ExitOf(<<Lit(<<"7">>)>>),
      ExitOf(<<Lit(<<"2">>), Kw("plus"), Lit(<<"3">>), Kw("star"), Lit(<<"4">>)>>),
      ExitOf(<<Kw("open_paren"), Lit(<<"2">>), Kw("plus"), Lit(<<"3">>),
               Kw("close_paren"), Kw("star"), Lit(<<"4">>)>>),
      DefOf("x", <<Lit(<<"1", "0">>)>>) \o DefOf("y", <<Lit(<<"5">>)>>)
          \o ExitOf(<<Id("x"), Kw("minus"), Id("y")>>),
      DefOf("x", <<Lit(<<"2">>)>>)
          \o <<Kw("open_curly")>> \o DefOf("y", <<Lit(<<"3">>)>>)
          \o DefOf("z", <<Id("x"), Kw("plus"), Id("y")>>) \o <<Kw("close_curly")>>
          \o ExitOf(<<Id("x")>>) }

\* Parser::parse_prog, as one call
RECURSIVE parse_prog(_, _)
parse_prog(ps, stmts) ==
    IF ~has_value(Parser_peak(ps, 0)) THEN Ok(ps, Some(stmts))
    ELSE Bind(Call("parse_stmt", ps, 0), LAMBDA stmt :
             IF IsFatal(stmt) THEN stmt
             ELSE IF ~has_value(stmt.res) THEN Fatal(stmt.ps, "Invalid Statement")
             ELSE parse_prog(stmt.ps, Append(stmts, value(stmt.res))))

\* main: the parser's Program moved into Generator::Generator
InitGen ==
    /\ pc = "gen_prog"
    /\ cerr = <<>>
    /\ m_tokens \in GenPrograms(MaxStmts) \cup Scenarios
    /\ \E parsed \in {parse_prog([m_index |-> 0, heap |-> <<>>, iters |-> <<>>], <<>>)} :
           /\ m_index = parsed.ps.m_index
           /\ heap = parsed.ps.heap
           /\ prog = value(parsed.res)
           /\ m_prog = value(parsed.res)
    /\ expr_res = None /\ stmt_start = <<>> /\ src_prog = <<>> /\ dropped = {}
    /\ m_output = <<>> /\ m_stack_loc = 0 /\ m_vars = <<>> /\ m_scopes = <<>>
    /\ frames = <<>> /\ def_slot = <<>>
    /\ ndebug \in BOOLEAN
    /\ ndebug => \E i \in 1..Len(m_tokens) : m_tokens[i].type = "if_"
    /\ TokIdle /\ ArenaIdle

\* the alternative a NodeStmt holds, the NodeTerm or NodeBinExpr a NodeExpr
\* holds, and the alternative that one holds
StmtAlt(p) == heap[heap[p].var]
ExprNode(p) == heap[heap[p].var]
ExprAlt(p) == heap[ExprNode(p).var]
Calls(kind, ptrs) == [i \in 1..Len(ptrs) |-> <<kind, ptrs[i]>>]
\* a frame of the gen_stmt call that starts now, with m_stack_loc,
\* m_vars.size(), m_vars and m_scopes at the call
AtCall(kind, p) == <<kind, p, m_stack_loc, Len(m_vars), m_vars, m_scopes>>

\* gen_prog up to its loop
GenProgStart ==
    /\ pc = "gen_prog"
    /\ pc' = "gen"
    /\ m_output' = m_output \o Header
    /\ frames' = Calls("gen_stmt", m_prog) \o << <<"trailer">> >>
    /\ UNCHANGED <<cerr, m_prog, m_stack_loc, m_vars, m_scopes, ndebug, def_slot,
                   tokVars, parVars, arenaVars>>

\* StmtVisitor, NodeStmtExit: up to the call of gen_expr
GenStmtExit ==
    /\ TopIs("gen_stmt")
    /\ StmtAlt(Top[2]).type = "NodeStmtExit"
    /\ frames' = << <<"gen_expr", StmtAlt(Top[2]).expr>>, AtCall("exit_tail", Top[2]) >>
                     \o Tail(frames)
    /\ UNCHANGED <<pc, cerr, m_prog, m_output, m_stack_loc, m_vars, m_scopes, ndebug,
                   def_slot, tokVars, parVars, arenaVars>>

\* StmtVisitor, NodeStmtExit: after gen_expr
GenExitTail ==
    /\ TopIs("exit_tail")
    /\ LET popped == pop([G EXCEPT !.m_output = EmitLine(@, <<"mov rax, 60">>)],
                         Reg("rdi"))
       IN /\ m_output' = EmitLine(popped.m_output, <<"syscall">>)
          /\ m_stack_loc' = popped.m_stack_loc
    /\ frames' = << <<"ret_stmt", Top[2], Top[3], Top[4], Top[5], Top[6]>> >> \o Tail(frames)
    /\ UNCHANGED <<pc, cerr, m_prog, m_vars, m_scopes, ndebug, def_slot,
                   tokVars, parVars, arenaVars>>

\* what NodeStmtDef does with m_vars before it lowers the initializer
DefEntry(vs, name, stack_loc) == Append(vs, [name |-> name, stack_loc |-> stack_loc])

\* StmtVisitor, NodeStmtDef: up to the call of gen_expr
GenStmtDef ==
    /\ TopIs("gen_stmt")
    /\ StmtAlt(Top[2]).type = "NodeStmtDef"
    /\ LET name == value(StmtAlt(Top[2]).ident.value)
       IN IF find_if(m_vars, name) # 0
          THEN /\ cerr' = Append(cerr, "Identifier already used: " \o Str(name))
               /\ pc' = "exit_failure"
               /\ UNCHANGED <<m_vars, frames>>
          ELSE /\ m_vars' = DefEntry(m_vars, name, m_stack_loc)
               /\ frames' = << <<"gen_expr", StmtAlt(Top[2]).expr>>,
                               AtCall("ret_stmt", Top[2]) >> \o Tail(frames)
               /\ UNCHANGED <<pc, cerr>>
    /\ UNCHANGED <<m_prog, m_output, m_stack_loc, m_scopes, ndebug, def_slot,
                   tokVars, parVars, arenaVars>>

\* StmtVisitor, NodeScope: begin_scope and the calls of the loop
GenStmtScope ==
    /\ TopIs("gen_stmt")
    /\ StmtAlt(Top[2]).type = "NodeScope"
    /\ m_scopes' = Append(m_scopes, Len(m_vars))
    /\ frames' = Calls("gen_stmt", StmtAlt(Top[2]).stmts)
                     \o << AtCall("end_scope", Top[2]) >> \o Tail(frames)
    /\ UNCHANGED <<pc, cerr, m_prog, m_output, m_stack_loc, m_vars, ndebug, def_slot,
                   tokVars, parVars, arenaVars>>

\* an end_scope that leaves m_stack_loc as it is
end_scope_loc_uncounted(loc, pop_count) == loc

\* Generator::end_scope: m_stack_loc -= pop_count
end_scope_loc(loc, pop_count) == loc - pop_count

\* StmtVisitor, NodeScope: end_scope
GenEndScope ==
    /\ TopIs("end_scope")
    /\ LET back == m_scopes[Len(m_scopes)]
           pop_count == Len(m_vars) - back
       IN /\ m_output' = EmitLine(m_output, <<"add rsp, ", size_t(pop_count * 8)>>)
          /\ m_stack_loc' = end_scope_loc(m_stack_loc, pop_count)
          /\ m_vars' = SubSeq(m_vars, 1, back)
          /\ def_slot' = SubSeq(def_slot, 1, back)
    /\ m_scopes' = SubSeq(m_scopes, 1, Len(m_scopes) - 1)
    /\ frames' = << <<"ret_stmt", Top[2], Top[3], Top[4], Top[5], Top[6]>> >> \o Tail(frames)
    /\ UNCHANGED <<pc, cerr, m_prog, ndebug, tokVars, parVars, arenaVars>>

\* StmtVisitor, NodeStmtIf: assert(false && "Not Implemented")
GenStmtIf ==
    /\ TopIs("gen_stmt")
    /\ StmtAlt(Top[2]).type = "NodeStmtIf"
    /\ IF ndebug
       THEN /\ frames' = << AtCall("ret_stmt", Top[2]) >> \o Tail(frames)
            /\ UNCHANGED <<pc, cerr>>
       ELSE /\ pc' = "abort"
            /\ cerr' = Append(cerr, "Assertion failed: false && \"Not Implemented\"")
            /\ UNCHANGED frames
    /\ UNCHANGED <<m_prog, m_output, m_stack_loc, m_vars, m_scopes, ndebug, def_slot,
                   tokVars, parVars, arenaVars>>

\* gen_stmt returns; a def whose initializer is lowered has its value in
\* the slot on top of the machine stack
GenStmtReturn ==
    /\ TopIs("ret_stmt")
    /\ frames' = Tail(frames)
    /\ def_slot' =
           IF StmtAlt(Top[2]).type = "NodeStmtDef"
           THEN Append(def_slot,
                       [name |-> value(StmtAlt(Top[2]).ident.value),
                        slot |-> Len(MachineStack) - 1,
                        line |-> MachineStack[Len(MachineStack)]])
           ELSE def_slot
    /\ UNCHANGED <<pc, cerr, m_prog, m_output, m_stack_loc, m_vars, m_scopes, ndebug,
                   tokVars, parVars, arenaVars>>

\* TermVisitor, NodeTermIntLit
GenTermIntLit ==
    /\ TopIs("gen_expr")
    /\ ExprNode(Top[2]).type = "NodeTerm"
    /\ ExprAlt(Top[2]).type = "NodeTermIntLit"
    /\ LET lexeme == value(ExprAlt(Top[2]).int_lit.value)
           pushed == push([G EXCEPT !.m_output =
                                        EmitLine(@, <<"mov rax, " \o Str(lexeme)>>)],
                          Reg("rax"))
       IN /\ m_output' = pushed.m_output
          /\ m_stack_loc' = pushed.m_stack_loc
    /\ frames' = Tail(frames)
    /\ UNCHANGED <<pc, cerr, m_prog, m_vars, m_scopes, ndebug, def_slot,
                   tokVars, parVars, arenaVars>>

\* TermVisitor, NodeTermIdent
GenTermIdent ==
    /\ TopIs("gen_expr")
    /\ ExprNode(Top[2]).type = "NodeTerm"
    /\ ExprAlt(Top[2]).type = "NodeTermIdent"
    /\ LET name == value(ExprAlt(Top[2]).ident.value)
           it == find_if(m_vars, name)
           \* offset << "QWORD [rsp + " << ... << "]\n"
           offset == << <<"QWORD [rsp + ",
                          IdentOffset(m_stack_loc, m_vars[it].stack_loc), "]">>,
                        <<>> >>
           pushed == push(G, offset)
       IN IF it = 0
          THEN /\ cerr' = Append(cerr, "Undeclared identifier: " \o Str(name))
               /\ pc' = "exit_failure"
               /\ UNCHANGED <<m_output, m_stack_loc, frames>>
          ELSE /\ m_output' = pushed.m_output
               /\ m_stack_loc' = pushed.m_stack_loc
               /\ frames' = Tail(frames)
               /\ UNCHANGED <<pc, cerr>>
    /\ UNCHANGED <<m_prog, m_vars, m_scopes, ndebug, def_slot, tokVars, parVars, arenaVars>>

\* TermVisitor, NodeTermParen
GenTermParen ==
    /\ TopIs("gen_expr")
    /\ ExprNode(Top[2]).type = "NodeTerm"
    /\ ExprAlt(Top[2]).type = "NodeTermParen"
    /\ frames' = << <<"gen_expr", ExprAlt(Top[2]).expr>> >> \o Tail(frames)
    /\ UNCHANGED <<pc, cerr, m_prog, m_output, m_stack_loc, m_vars, m_scopes, ndebug,
                   def_slot, tokVars, parVars, arenaVars>>

\* a BinExprVisitor that lowers lhs before rhs
OperandOrder_lhs_first(bin) == <<bin.lhs, bin.rhs>>

\* BinExprVisitor: gen_expr(rhs); gen_expr(lhs);
OperandOrder(bin) == <<bin.rhs, bin.lhs>>

\* BinExprVisitor: up to the calls of gen_expr
GenBinExpr ==
    /\ TopIs("gen_expr")
    /\ ExprNode(Top[2]).type = "NodeBinExpr"
    /\ frames' = Calls("gen_expr", OperandOrder(ExprAlt(Top[2])))
                     \o << AtCall("bin_tail", Top[2]) >> \o Tail(frames)
    /\ UNCHANGED <<pc, cerr, m_prog, m_output, m_stack_loc, m_vars, m_scopes, ndebug,
                   def_slot, tokVars, parVars, arenaVars>>

\* BinExprVisitor: after the calls of gen_expr
GenBinTail ==
    /\ TopIs("bin_tail")
    /\ LET popped == pop(pop(G, Reg("rax")), Reg("rbx"))
           pushed == push([popped EXCEPT !.m_output =
                               EmitLine(@, BinOpLine(ExprAlt(Top[2]).type))],
                          Reg("rax"))
       IN /\ m_output' = pushed.m_output
          /\ m_stack_loc' = pushed.m_stack_loc
    /\ frames' = Tail(frames)
    /\ UNCHANGED <<pc, cerr, m_prog, m_vars, m_scopes, ndebug, def_slot,
                   tokVars, parVars, arenaVars>>

\* gen_prog after its loop
GenProgReturn ==
    /\ TopIs("trailer")
    /\ m_output' = m_output \o Trailer
    /\ frames' = Tail(frames)
    /\ pc' = "generated"
    /\ UNCHANGED <<cerr, m_prog, m_stack_loc, m_vars, m_scopes, ndebug, def_slot,
                   tokVars, parVars, arenaVars>>

NextGen ==
    \/ GenProgStart \/ GenStmtExit \/ GenExitTail \/ GenStmtDef \/ GenStmtScope
    \/ GenEndScope \/ GenStmtIf \/ GenStmtReturn \/ GenTermIntLit \/ GenTermIdent
    \/ GenTermParen \/ GenBinExpr \/ GenBinTail \/ GenProgReturn

SpecGen == InitGen /\ [][NextGen]_vars

(***************************************************************************)
(* The lowering of section 4.4 of the specification, on the AST as a      *)
(* value: live is the sequence of the live names, the variable at index i *)
(* lives in slot i - 1, and depth is the number of slots in use.          *)
(***************************************************************************)
RefSlot(live, name) == (CHOOSE i \in 1..Len(live) : live[i] = name) - 1
RefOpLine(op) ==
    CASE op = "Add" -> <<"add rax, rbx">> [] op = "Sub" -> <<"sub rax, rbx">>
      [] op = "Mult" -> <<"mul rbx">> [] op = "Div" -> <<"div rbx">>
RECURSIVE RefExpr(_, _, _), RefStmts(_, _)
RefExpr(e, live, depth) ==
    CASE e[1] = "IntLit" -> << <<"mov rax, " \o Str(e[2])>>, <<"push", "rax">> >>
      [] e[1] = "Ident" ->
             << <<"push", "QWORD [rsp + ",
                  size_t((depth - RefSlot(live, e[2]) - 1) * 8), "]">>, <<>> >>
      [] e[1] = "Paren" -> RefExpr(e[2], live, depth)
      [] OTHER ->
             RefExpr(e[3], live, depth) \o RefExpr(e[2], live, depth + 1)
                 \o << <<"pop", "rax">>, <<"pop", "rbx">>, RefOpLine(e[1]),
                       <<"push", "rax">> >>
\* the lines of a statement sequence and the names live after it
RefStmts(stmts, live) ==
    IF stmts = <<>> THEN [out |-> <<>>, live |-> live]
    ELSE LET s == stmts[1]
             first ==
                 CASE s[1] = "Exit" ->
                          [out |-> RefExpr(s[2], live, Len(live))
                                       \o << <<"mov rax, 60">>, <<"pop", "rdi">>,
                                             <<"syscall">> >>,
                           live |-> live]
                   [] s[1] = "Def" ->
                          [out |-> RefExpr(s[3], Append(live, s[2]), Len(live)),
                           live |-> Append(live, s[2])]
                   [] s[1] = "Scope" ->
                          [out |-> RefStmts(s[2], live).out
                                       \o << <<"add rsp, ",
                                               (Len(RefStmts(s[2], live).live)
                                                    - Len(live)) * 8>> >>,
                           live |-> live]
                   [] s[1] = "If" -> [out |-> <<>>, live |-> live]
             rest == RefStmts(Tail(stmts), first.live)
         IN [out |-> first.out \o rest.out, live |-> rest.live]

IsPrefix(s, t) == Len(s) <= Len(t) /\ SubSeq(t, 1, Len(s)) = s

\* C6: the text gen_prog returns is the lines global _start and _start:,
\* then the code of each top-level statement in source order, then the
\* lines mov rax, 60, mov rdi, 0 and syscall, also when the program holds
\* an exit; and every step of the generator only appends lines.
C6_HeaderStmtsTrailer ==
    /\ [](pc = "generated" =>
            m_output = << <<"global _start">>, <<"_start:">> >>
                           \o RefStmts(ProgTree(heap, m_prog), <<>>).out
                           \o << <<"mov rax, 60">>, <<"mov rdi, 0">>,
                                 <<"syscall">> >>)
    /\ [][IsPrefix(m_output, m_output')]_vars

\* a program with a def and an exit has been generated, the trailer after
\* the exit's syscall
C6_Witness ==
    /\ pc = "generated"
    /\ Len(m_vars) = 1
    /\ \E i \in 1..Len(m_output) : m_output[i] = <<"pop", "rdi">>

\* the statement a gen_stmt frame is about, and the term a gen_expr frame
\* is about when it is an identifier
OnStmt(kind, type) == TopIs(kind) /\ StmtAlt(Top[2]).type = type
OnIdent ==
    /\ TopIs("gen_expr")
    /\ ExprNode(Top[2]).type = "NodeTerm"
    /\ ExprAlt(Top[2]).type = "NodeTermIdent"
IdentName == value(ExprAlt(Top[2]).ident.value)
DefName == value(StmtAlt(Top[2]).ident.value)

\* C7: when gen_stmt is called and when it returns, for an exit, a def or
\* a scope at any depth, m_stack_loc equals m_vars.size(); from call to
\* return an exit and a scope leave both as they were and a def adds one to
\* both.
C7_DepthMatchesVars ==
    (TopIs("gen_stmt") \/ TopIs("ret_stmt")) =>
        /\ m_stack_loc = Len(m_vars)
        /\ OnStmt("ret_stmt", "NodeStmtExit") =>
               m_stack_loc = Top[3] /\ Len(m_vars) = Top[4]
        /\ OnStmt("ret_stmt", "NodeScope") =>
               m_stack_loc = Top[3] /\ Len(m_vars) = Top[4]
        /\ OnStmt("ret_stmt", "NodeStmtDef") =>
               m_stack_loc = Top[3] + 1 /\ Len(m_vars) = Top[4] + 1

\* a def inside a scope returns with two variables live
C7_Witness ==
    /\ OnStmt("ret_stmt", "NodeStmtDef")
    /\ Len(m_scopes) = 1
    /\ Len(m_vars) = 2
    /\ m_stack_loc = 2

\* the slot, counted from the bottom of the machine stack, that the
\* operand [rsp + off] of a push addresses when the stack holds height slots
Addressed(height, off) == height - 1 - off \div 8

\* C8: for a variable x whose def has returned and whose scope is open, an
\* Ident(x) term lowered at stack depth D emits push QWORD [rsp + (D - d - 1) * 8]
\* with D > d, where d is the slot x's initializer was pushed into, and on
\* the machine stack the emitted lines build the operand addresses that
\* slot, still holding the value pushed by the initializer.
C8_OperandAddressesSlot ==
    [][\A i \in 1..Len(def_slot) :
           (OnIdent /\ IdentName = def_slot[i].name) =>
               LET D == m_stack_loc
                   d == def_slot[i].slot
                   emitted == m_output'[Len(m_output) + 1]
               IN /\ D > d
                  /\ Len(m_output') = Len(m_output) + 2
                  /\ emitted = <<"push", "QWORD [rsp + ", (D - d - 1) * 8, "]">>
                  /\ Addressed(Len(MachineStack), emitted[3]) = d
                  /\ MachineStack[d + 1] = def_slot[i].line]_vars

\* in exit(y + x * 1) with x and y defined, x has been read below y's slot
\* and the temporary of 1: its operand is [rsp + 16]
C8_Witness ==
    /\ Len(def_slot) = 2
    /\ m_stack_loc = 4
    /\ m_output[Len(m_output) - 1] = <<"push", "QWORD [rsp + ", 16, "]">>

\* the names whose def has returned in a scope that is still open
Defined == { def_slot[i].name : i \in 1..Len(def_slot) }

\* C9: lowering Ident(x) exits with Undeclared identifier whenever no def
\* of x has returned in a scope still open: with no def at all, after the
\* defining scope has closed, and inside the initializer of x's own def.
C9_UndeclaredIsFatal ==
    [][(OnIdent /\ IdentName \notin Defined) =>
           /\ pc' = "exit_failure"
           /\ cerr' = Append(cerr, "Undeclared identifier: " \o Str(IdentName))
           /\ m_output' = m_output]_vars

\* C10: a def of a name already in m_vars, in this or an enclosing scope,
\* exits with Identifier already used and leaves m_vars as it is; the names
\* in m_vars are pairwise distinct in every state; a def of a name that is
\* not in m_vars, so also of one whose declaring scope has been left, is
\* entered; and end_scope takes the names declared in the scope out of
\* m_vars.
C10_NoRedeclaration ==
    /\ [](\A i \in 1..Len(m_vars), j \in 1..Len(m_vars) :
              i # j => m_vars[i].name # m_vars[j].name)
    /\ [][(OnStmt("gen_stmt", "NodeStmtDef")
              /\ \E i \in 1..Len(m_vars) : m_vars[i].name = DefName) =>
              /\ pc' = "exit_failure"
              /\ cerr' = Append(cerr, "Identifier already used: " \o Str(DefName))
              /\ m_vars' = m_vars]_vars
    /\ [][(OnStmt("gen_stmt", "NodeStmtDef")
              /\ \A i \in 1..Len(m_vars) : m_vars[i].name # DefName) =>
              /\ pc' = "gen"
              /\ m_vars' = Append(m_vars, [name |-> DefName, stack_loc |-> m_stack_loc])]_vars
    /\ [][TopIs("end_scope") =>
              \A i \in (m_scopes[Len(m_scopes)] + 1)..Len(m_vars) :
                  \A j \in 1..Len(m_vars') : m_vars'[j].name # m_vars[i].name]_vars

\* { def x = 1; } def x = 1;  has been generated: x is declared again after
\* the scope that declared it was left
C10_Witness ==
    /\ pc = "generated"
    /\ m_vars = <<[name |-> <<"x">>, stack_loc |-> 0]>>
    /\ \E i \in 1..Len(m_output) : m_output[i] = <<"add rsp, ", 8>>

\* the number of defs among the statements of the scope a frame is about
DefsIn(p) ==
    Cardinality({ i \in 1..Len(StmtAlt(p).stmts) :
                    StmtAlt(StmtAlt(p).stmts[i]).type = "NodeStmtDef" })

\* C11: when the lowering of a scope returns, m_stack_loc, m_vars and
\* m_scopes are what they were when it was called.  end_scope, with n the
\* number of variables declared in the scope and still live (the defs
\* directly in it, those of inner scopes being gone already), emits
\* add rsp, n*8, takes n off m_stack_loc, drops the last n entries of m_vars
\* and pops the one boundary the scope pushed, the innermost; n is not
\* negative; and the variables of the enclosing scopes keep their name,
\* their birth depth and their slot with the value pushed into it.
C11_ScopeRestores ==
    /\ [](OnStmt("ret_stmt", "NodeScope") =>
            /\ m_stack_loc = Top[3] /\ m_vars = Top[5] /\ m_scopes = Top[6]
            /\ Len(MachineStack) = m_stack_loc
            /\ Len(def_slot) = Len(m_vars)
            /\ \A i \in 1..Len(m_vars) :
                   /\ def_slot[i].name = m_vars[i].name
                   /\ def_slot[i].slot = m_vars[i].stack_loc
                   /\ MachineStack[def_slot[i].slot + 1] = def_slot[i].line)
    /\ [][TopIs("end_scope") =>
            LET n == Len(m_vars) - Top[4]
            IN /\ n >= 0
               /\ n = DefsIn(Top[2])
               /\ m_output' = Append(m_output, <<"add rsp, ", n * 8>>)
               /\ m_stack_loc' = m_stack_loc - n
               /\ m_vars' = SubSeq(m_vars, 1, Len(m_vars) - n)
               /\ m_scopes # <<>>
               /\ m_scopes[Len(m_scopes)] = Top[4]
               /\ m_scopes' = SubSeq(m_scopes, 1, Len(m_scopes) - 1)
               /\ m_scopes' = Top[6]]_vars

\* def x = 1; { def y = x + 1; }  has left its scope: y is gone with
\* add rsp, 8 and x is live in slot 0
C11_Witness ==
    /\ OnStmt("ret_stmt", "NodeScope")
    /\ m_vars = <<[name |-> <<"x">>, stack_loc |-> 0]>>
    /\ m_output[Len(m_output)] = <<"add rsp, ", 8>>

(***************************************************************************)
(* The emitted lines run on an x86-64 stack machine.  A register or a     *)
(* slot holds a 64-bit word; the model keeps the integer of least         *)
(* magnitude the word is congruent to modulo 2^64, which the literals and *)
(* expressions of the model keep far below 2^31.  The machine is its      *)
(* stack, bottom first, the registers the lines name, whether exit has    *)
(* been called with which status, and whether a line has been run that    *)
(* the machine does not define (div with rdx not set).  An operand        *)
(* [rsp + off] of a push is addressed from rsp as it is before the push.  *)
(***************************************************************************)
Digits == <<"0", "1", "2", "3", "4", "5", "6", "7", "8", "9">>
RECURSIVE atoi(_)
\* the number a sequence of digits spells
atoi(digits) ==
    IF digits = <<>> THEN 0
    ELSE atoi(SubSeq(digits, 1, Len(digits) - 1)) * 10
             + (CHOOSE d \in 0..9 : Digits[d + 1] = digits[Len(digits)])

\* the literals of the program, and the immediate of a mov rax line
Lexemes == { value(m_tokens[i].value) : i \in { j \in 1..Len(m_tokens) :
                                                  m_tokens[j].type = "int_lit" } }
Imm(piece) ==
    IF piece = "mov rax, 60" THEN 60
    ELSE atoi(CHOOSE lexeme \in Lexemes : piece = "mov rax, " \o Str(lexeme))

Booted == [stack |-> <<>>, rax |-> 0, rbx |-> 0, rdi |-> 0,
           exited |-> FALSE, status |-> 0, undefined |-> FALSE]

\* one line run on the machine m
Step(m, line) ==
    LET top == m.stack[Len(m.stack)]
        popped == SubSeq(m.stack, 1, Len(m.stack) - 1)
    IN IF m.exited \/ m.undefined \/ line = <<>> THEN m
       ELSE IF line[1] = "push" THEN
           IF line[2] = "rax" THEN [m EXCEPT !.stack = Append(@, m.rax)]
           ELSE IF line[3] \in 0..((Len(m.stack) - 1) * 8)
                THEN [m EXCEPT !.stack = Append(@, m.stack[Len(m.stack) - line[3] \div 8])]
                ELSE [m EXCEPT !.undefined = TRUE]
       ELSE IF line[1] = "pop" THEN
           IF m.stack = <<>> THEN [m EXCEPT !.undefined = TRUE]
           ELSE CASE line[2] = "rax" -> [m EXCEPT !.rax = top, !.stack = popped]
                  [] line[2] = "rbx" -> [m EXCEPT !.rbx = top, !.stack = popped]
                  [] line[2] = "rdi" -> [m EXCEPT !.rdi = top, !.stack = popped]
       ELSE IF line[1] = "add rsp, " THEN
           IF line[2] \in 0..(Len(m.stack) * 8)
           THEN [m EXCEPT !.stack = SubSeq(@, 1, Len(@) - line[2] \div 8)]
           ELSE [m EXCEPT !.undefined = TRUE]
       ELSE IF line[1] = "add rax, rbx" THEN [m EXCEPT !.rax = m.rax + m.rbx]
       ELSE IF line[1] = "sub rax, rbx" THEN [m EXCEPT !.rax = m.rax - m.rbx]
       ELSE IF line[1] = "mul rbx" THEN [m EXCEPT !.rax = m.rax * m.rbx]
       ELSE IF line[1] = "div rbx" THEN [m EXCEPT !.undefined = TRUE]
       ELSE IF line[1] = "mov rdi, 0" THEN [m EXCEPT !.rdi = 0]
       ELSE IF line[1] = "syscall" THEN
           IF m.rax = 60 THEN [m EXCEPT !.exited = TRUE, !.status = m.rdi]
           ELSE [m EXCEPT !.undefined = TRUE]
       ELSE IF line[1] \in {"global _start", "_start:"} THEN m
       ELSE [m EXCEPT !.rax = Imm(line[1])]

RECURSIVE Exec(_, _)
\* the machine after the first n lines of out
Exec(out, n) ==
    IF n = 0 THEN Booted
    ELSE Bind(Exec(out, n - 1), LAMBDA m : Step(m, out[n]))
Ran == Exec(m_output, Len(m_output))

(***************************************************************************)
(* The value of a program by the grammar: an expression over literals,    *)
(* declared variables, parentheses and + - * has the value of its tree,   *)
(* a def binds its name to the value of its initializer from the next     *)
(* statement on, a scope forgets its names at its end, and the first exit *)
(* ends the program with the value of its expression.  env is the         *)
(* sequence of the bindings.  Anything else (an undeclared name, /, if)   *)
(* has no value here.                                                      *)
(***************************************************************************)
RECURSIVE RefValue(_, _), RefRun(_, _)
RefValue(e, env) ==
    CASE e[1] = "IntLit" -> Some(atoi(e[2]))
      [] e[1] = "Ident" ->
             IF \E i \in 1..Len(env) : env[i].name = e[2]
             THEN Some(env[CHOOSE i \in 1..Len(env) : env[i].name = e[2]].val)
             ELSE None
      [] e[1] = "Paren" -> RefValue(e[2], env)
      [] e[1] = "Div" -> None
      [] OTHER ->
             Bind(RefValue(e[2], env), LAMBDA a :
             Bind(RefValue(e[3], env), LAMBDA b :
                 IF a = None \/ b = None THEN None
                 ELSE CASE e[1] = "Add" -> Some(value(a) + value(b))
                        [] e[1] = "Sub" -> Some(value(a) - value(b))
                        [] e[1] = "Mult" -> Some(value(a) * value(b))))
\* how stmts run from env: "exit" with the status, "end" with the
\* bindings then, or "none"
RefRun(stmts, env) ==
    IF stmts = <<>> THEN [how |-> "end", env |-> env]
    ELSE LET s == stmts[1]
         IN CASE s[1] = "Exit" ->
                     Bind(RefValue(s[2], env), LAMBDA v :
                         IF v = None THEN [how |-> "none"]
                         ELSE [how |-> "exit", status |-> value(v)])
              [] s[1] = "Def" ->
                     Bind(RefValue(s[3], env), LAMBDA v :
                         IF v = None \/ \E i \in 1..Len(env) : env[i].name = s[2]
                         THEN [how |-> "none"]
                         ELSE RefRun(Tail(stmts),
                                     Append(env, [name |-> s[2], val |-> value(v)])))
              [] s[1] = "Scope" ->
                     Bind(RefRun(s[2], env), LAMBDA body :
                         IF body.how = "end" THEN RefRun(Tail(stmts), env)
                         ELSE body)
              [] s[1] = "If" -> [how |-> "none"]
RefResult == RefRun(ProgTree(heap, m_prog), <<>>)

\* C12: run on the machine, the lines emitted up to the end of an exit,
\* and the text gen_prog returns, call exit at the first exit(e) the
\* program reaches with rdi the value of e by the grammar, for e over
\* literals, declared variables, parentheses and + - *: a binary
\* operator's instruction runs with the left operand in rax and the right
\* one in rbx, so that a - b is a minus b.  exit(2 + 3 * 4) gives 14,
\* exit((2 + 3) * 4) gives 20 and def x = 10; def y = 5; exit(x - y); gives 5.
C12_ExitValue ==
    /\ (pc = "generated" \/ OnStmt("ret_stmt", "NodeStmtExit")) =>
           (RefResult.how = "exit" =>
               /\ Ran.exited /\ ~Ran.undefined
               /\ Ran.status = RefResult.status)
    /\ (pc = "generated" /\ m_tokens \in Scenarios) =>
           LET e == SubSeq(m_tokens, 3, Len(m_tokens) - 2)
               is(types) == [i \in 1..Len(e) |-> e[i].type] = types
           IN /\ is(<<"int_lit", "plus", "int_lit", "star", "int_lit">>) =>
                     Ran.status = 14
              /\ is(<<"open_paren", "int_lit", "plus", "int_lit", "close_paren",
                      "star", "int_lit">>) => Ran.status = 20
              /\ (Len(m_vars) = 2 /\ m_vars[2].name = <<"y">>) => Ran.status = 5

\* def x = 10; def y = 5; exit(x - y);  has been generated and exits with 5
C12_Witness ==
    /\ pc = "generated"
    /\ Len(m_vars) = 2
    /\ \E i \in 1..Len(m_output) : m_output[i] = <<"sub rax, rbx">>
    /\ Ran.exited /\ Ran.status = 5

(***************************************************************************)
(* WHITESPACE                                                              *)
(*                                                                         *)
(* Tokenizer::tokenize as one call on a source text: the loop from index  *)
(* i with the tokens pushed so far; spans keeps, per token, the C++       *)
(* indices from and to of its characters.  On a character of the final    *)
(* else branch the loop does not end and nothing is returned.             *)
(***************************************************************************)
RECURSIVE tokenize_loop(_, _, _, _)
tokenize_loop(src, i, toks, spans) ==
    IF i >= Len(src) THEN [returns |-> TRUE, tokens |-> toks, spans |-> spans]
    ELSE LET c == src[i + 1]
             word_end == RunEnd(src, i + 1, TRUE)
             int_end == RunEnd(src, i + 1, FALSE)
         IN IF isalpha(c)
            THEN tokenize_loop(src, word_end,
                               Append(toks, WordToken(Consumed(src, i, word_end))),
                               Append(spans, <<i, word_end>>))
            ELSE IF isdigit(c)
            THEN tokenize_loop(src, int_end,
                               Append(toks, Token("int_lit", Some(Consumed(src, i, int_end)))),
                               Append(spans, <<i, int_end>>))
            ELSE IF c \in PunctChars
            THEN tokenize_loop(src, i + 1, Append(toks, Token(PunctType(c), None)),
                               Append(spans, <<i, i + 1>>))
            ELSE IF isspace(c) THEN tokenize_loop(src, i + 1, toks, spans)
            ELSE [returns |-> FALSE, tokens |-> toks, spans |-> spans]
tokenize(src) == tokenize_loop(src, 0, <<>>, <<>>)

\* the whitespace strings, and s with ws put in at C++ index k
RECURSIVE Blanks(_)
Blanks(n) ==
    IF n = 0 THEN { <<>> }
    ELSE LET B == Blanks(n - 1) IN B \cup { b \o <<c>> : b \in B, c \in SpaceChars }
Insert(src, k, ws) == SubSeq(src, 1, k) \o ws \o SubSeq(src, k + 1, Len(src))
\* the indices of src that are not inside a token: before the first
\* token, between two adjacent tokens, after the last one
Between(src) ==
    LET spans == tokenize(src).spans
    IN { k \in 0..Len(src) :
           \A n \in 1..Len(spans) : ~(spans[n][1] < k /\ k < spans[n][2]) }

\* C13: for a source s that tokenize accepts and every s' made from s by
\* putting whitespace characters between two adjacent tokens, before the
\* first or after the last token, tokenize(s') returns and is the token
\* sequence tokenize(s), kind by kind and lexeme by lexeme; the parser and
\* the generator get nothing but that sequence, so their results are the
\* same too.
C13_WhitespaceInsensitive ==
    pc = "tokenized" =>
        /\ tokenize(m_src).returns
        /\ tokenize(m_src).tokens = tokens
        /\ \A k \in Between(m_src), ws \in Blanks(MaxBlanks) :
               LET spaced == tokenize(Insert(m_src, k, ws))
               IN spaced.returns /\ spaced.tokens = tokens

\* exit(1 has been tokenized: three tokens with no whitespace between them
C13_Witness ==
    /\ pc = "tokenized"
    /\ m_src = <<"e", "x", "i", "t", "(", "1">>
    /\ Len(tokens) = 3
    /\ Between(m_src) = {0, 4, 5, 6}

(***************************************************************************)
(* ARENA                                                                   *)
(*                                                                         *)
(* ArenaAllocator on its own, byte by byte: m_offset is kept as the       *)
(* distance of the pointer m_offset from m_buffer, so that a region       *)
(* [from, from + size) lies in the buffer when from + size <= m_size.     *)
(* sizeof is that of the x86-64 build with libstdc++ (a pointer 8 bytes,  *)
(* a std::variant of pointers 16, a std::vector 24, a Token 48).  In the  *)
(* parser above the same allocator is the heap of cells.                  *)
(***************************************************************************)
NodeTypes ==
    {"NodeTermIntLit", "NodeTermIdent", "NodeTermParen", "NodeBinExprAdd",
     "NodeBinExprMult", "NodeBinExprSub", "NodeBinExprDiv", "NodeBinExpr",
     "NodeTerm", "NodeExpr", "NodeScope", "NodeStmtExit", "NodeStmtDef",
     "NodeIfPredElif", "NodeIfPredElse", "NodeIfPred", "NodeStmtIf", "NodeStmt"}
sizeof(T) ==
    CASE T \in {"NodeTermIntLit", "NodeTermIdent"} -> 48
      [] T = "NodeStmtDef" -> 56
      [] T \in {"NodeIfPredElif", "NodeStmtIf"} -> 32
      [] T = "NodeScope" -> 24
      [] T \in {"NodeBinExprAdd", "NodeBinExprMult", "NodeBinExprSub",
                "NodeBinExprDiv", "NodeBinExpr", "NodeTerm", "NodeExpr",
                "NodeIfPred", "NodeStmt"} -> 16
      [] T \in {"NodeTermParen", "NodeStmtExit", "NodeIfPredElse"} -> 8

\* ArenaAllocator::ArenaAllocator(bytes)
InitArena ==
    /\ pc = "arena"
    /\ cerr = <<>>
    /\ m_size \in 0..MaxBytes
    /\ m_offset = 0
    /\ regions = <<>>
    /\ TokIdle /\ ParIdle /\ GenIdle

\* ArenaAllocator::alloc<T>: the pointer returned is the old m_offset
ArenaAlloc ==
    /\ pc = "arena"
    /\ Len(regions) < MaxAllocs
    /\ \E T \in NodeTypes :
           /\ regions' = Append(regions, [from |-> m_offset, size |-> sizeof(T)])
           /\ m_offset' = m_offset + sizeof(T)
    /\ UNCHANGED <<pc, cerr, m_size, tokVars, parVars, genVars>>

NextArena == ArenaAlloc

SpecArena == InitArena /\ [][NextArena]_vars

\* C14: every region alloc has returned lies inside the buffer of m_size
\* bytes and no two of them overlap; and an allocation that would take the
\* offset past the capacity is fatal and returns no region.
C14_AllocWithinCapacity ==
    /\ [](\A i \in 1..Len(regions) :
              /\ regions[i].from >= 0
              /\ regions[i].from + regions[i].size <= m_size)
    /\ [](\A i \in 1..Len(regions), j \in 1..Len(regions) :
              i < j => regions[i].from + regions[i].size <= regions[j].from)
    /\ [][(pc = "arena" /\ \A T \in NodeTypes : m_offset + sizeof(T) > m_size) =>
              /\ pc' = "exit_failure"
              /\ regions' = regions]_vars

\* the program holds an if statement
HasIf == \E i \in 1..Len(m_tokens) : m_tokens[i].type = "if_"

\* C15: lowering an if statement, at top level or inside a scope, is
\* fatal: generation aborts there with nothing emitted for the if, its
\* condition, its scope or its tail, and gen_prog never returns text for a
\* program that holds an if whose lowering was reached.
C15_IfIsFatal ==
    /\ [][OnStmt("gen_stmt", "NodeStmtIf") =>
              /\ pc' = "abort"
              /\ m_output' = m_output]_vars
    /\ [](pc = "generated" => ~HasIf)

(***************************************************************************)
(* The links of the AST in the heap: from a NodeExpr to the NodeExprs it  *)
(* holds as lhs and rhs of its binary node or inside its parentheses.     *)
(***************************************************************************)
ExprCells(h) == { p \in 1..Len(h) : h[p].type = "NodeExpr" }
BinCells(h) ==
    { p \in 1..Len(h) : h[p].type \in {"NodeBinExprAdd", "NodeBinExprMult",
                                        "NodeBinExprSub", "NodeBinExprDiv"} }
ExprKids(h, e) ==
    LET node == h[h[e].var]
        alt == h[node.var]
    IN IF node.type = "NodeBinExpr" THEN {alt.lhs, alt.rhs}
       ELSE IF alt.type = "NodeTermParen" THEN {alt.expr}
       ELSE {}
RECURSIVE Below(_, _)
\* the NodeExprs reachable from those of S, S included
Below(h, S) ==
    LET T == S \cup UNION { ExprKids(h, e) : e \in S }
    IN IF T = S THEN S ELSE Below(h, T)
\* the NodeExprs whose var is the NodeBinExpr that holds the binary node
\* b: the slot expr_lhs reassigned when b was built, or the copy made of it
\* since
Holders(h, b) ==
    { e \in ExprCells(h) : h[h[e].var].type = "NodeBinExpr" /\ h[h[e].var].var = b }

\* C16: in the heap parse_expr leaves, the left child of every binary
\* node is a NodeExpr allocated when the node was built, which holds the
\* variant the slot expr_lhs held before; it is not the NodeExpr that holds
\* the new binary node, and no variant is held by two NodeExprs, the slot
\* having been reassigned after the copy; no NodeExpr is reachable from
\* itself through lhs, rhs and parenthesis links.
C16_LhsCopyAcyclic ==
    pc = "expr_parsed" =>
        /\ \A b \in BinCells(heap) :
               /\ heap[b].lhs \in ExprCells(heap)
               /\ heap[b].lhs = b - 1
               /\ heap[b - 2].type = "NodeBinExpr" /\ heap[b - 2].var = b
               /\ heap[heap[b].lhs].var \in 1..(b - 3)
               /\ Cardinality(Holders(heap, b)) = 1
               /\ heap[b].lhs \notin Holders(heap, b)
        /\ \A e1 \in ExprCells(heap), e2 \in ExprCells(heap) :
               heap[e1].var = heap[e2].var => e1 = e2
        /\ \A e \in ExprCells(heap) :
               e \notin Below(heap, ExprKids(heap, e))

\* a - b - c has been parsed: the slot of the first term was reassigned
\* twice, and its first binary node now hangs under a copy
C16_Witness ==
    /\ pc = "expr_parsed"
    /\ m_tokens = Flat3("minus", "minus")
    /\ Cardinality(BinCells(heap)) = 2
    /\ \E b \in BinCells(heap) :
           heap[heap[heap[b].lhs].var].type = "NodeBinExpr"

\* the number of lines of out that start with op, and the slots the
\* add rsp lines of out give back
Count(out, op) == Cardinality({ i \in 1..Len(out) : out[i] # <<>> /\ out[i][1] = op })
RECURSIVE Released(_)
Released(out) ==
    IF out = <<>> THEN 0
    ELSE Released(SubSeq(out, 1, Len(out) - 1))
             + (IF out[Len(out)] # <<>> /\ out[Len(out)][1] = "add rsp, "
                THEN out[Len(out)][2] \div 8 ELSE 0)
\* the frames that wait for an expression or a statement begun at
\* m_stack_loc = frame[3]
Waiting == { k \in 1..Len(frames) :
               frames[k][1] \in {"bin_tail", "exit_tail", "ret_stmt", "end_scope"} }
OnTerm ==
    /\ TopIs("gen_expr")
    /\ ExprNode(Top[2]).type = "NodeTerm"
    /\ ExprAlt(Top[2]).type \in {"NodeTermIntLit", "NodeTermIdent"}

\* C17: lowering an expression adds exactly one to m_stack_loc: a literal
\* and an identifier by their one push; a binary expression begun at depth
\* s has s + 1 when its right operand is done, s + 2 when its left operand
\* is done and s + 1 after pop, pop, push; the expression of an exit begun
\* at s ends at s + 1.  While an expression or statement begun at s is
\* under way m_stack_loc is never below s.  No pop runs at m_stack_loc 0,
\* m_stack_loc is never below 0, and at every point it is the number of
\* push lines emitted minus the number of pop lines minus the sum of n
\* over the add rsp, n*8 lines.
C17_ExprNetPlusOne ==
    /\ [](m_stack_loc >= 0)
    /\ [](m_stack_loc = Count(m_output, "push") - Count(m_output, "pop")
                            - Released(m_output))
    /\ [](pc = "gen" => \A k \in Waiting : m_stack_loc >= frames[k][3])
    /\ []((TopIs("gen_expr") /\ Len(frames) > 1 /\ frames[2][1] = "bin_tail") =>
              m_stack_loc = frames[2][3] + 1)
    /\ [](TopIs("bin_tail") => m_stack_loc = Top[3] + 2)
    /\ [](TopIs("exit_tail") => m_stack_loc = Top[3] + 1)
    /\ [][TopIs("bin_tail") => m_stack_loc' = Top[3] + 1]_vars
    /\ [][(OnTerm /\ pc' = "gen") => m_stack_loc' = m_stack_loc + 1]_vars
    /\ [][m_stack_loc >= Count(m_output', "pop") - Count(m_output, "pop")]_vars

\* in exit(y + x * 1) with x and y live, x * 1 has its two operands on
\* the stack above the two variables
C17_Witness ==
    /\ TopIs("bin_tail")
    /\ Top[3] = 2
    /\ m_stack_loc = 4
    /\ Len(frames) > 2 /\ frames[3][1] = "bin_tail"


(***************************************************************************)
(* parse_prog on any token sequence: every sequence of at most MaxToks    *)
(* tokens, and the sample programs whole or with any one token left out.  *)
(* The process runs parse_prog's loop until it returns or exits, which is *)
(* the fairness SpecParseAll states.                                       *)
(***************************************************************************)
\* one token of every TokenType
Alphabet ==
    { One, Id("x") }
    \cup { Kw(type) : type \in { "exit", "semi", "open_paren", "close_paren", "def",
                                 "eq", "plus", "star", "minus", "fslash",
                                 "open_curly", "close_curly", "if_", "elif", "else_" } }
RECURSIVE TokenSeqs(_)
\* the token sequences of at most n tokens
TokenSeqs(n) ==
    IF n = 0 THEN { <<>> }
    ELSE TokenSeqs(n - 1)
         \cup { Append(seq, tok) : seq \in { t \in TokenSeqs(n - 1) : Len(t) = n - 1 },
                                   tok \in Alphabet }
\* if (1) { def x = 1 + x; } elif ( ( x ) ) { } else { exit(1); }
IfElifElse ==
    Plain(IfForm(ExprOne, DefForm(ExprSum),
                 ElifForm(ExprParen, <<>>, ElseForm(ExitForm(ExprOne)))))
Samples == Scenarios \cup { IfElifElse }
AnyTokens ==
    TokenSeqs(MaxToks)
    \cup UNION { { DropAt(p, D) : D \in { {} } \cup { {d} : d \in 1..Len(p) } } :
                 p \in Samples }

\* Parser::Parser, on any token sequence
InitTokens ==
    /\ pc = "parse"
    /\ cerr = <<>>
    /\ src_prog = <<>>
    /\ dropped = {}
    /\ m_tokens \in AnyTokens
    /\ m_index = 0 /\ heap = <<>> /\ prog = <<>>
    /\ expr_res = None /\ stmt_start = <<>>
    /\ TokIdle /\ GenIdle /\ ArenaIdle

SpecParseAll == InitTokens /\ [][NextParse]_vars /\ WF_vars(NextParse)

\* the iterations of the loops of parse_scope and parse_expr that went on
\* to a next iteration, in the parse_stmt call parse_prog makes now
StmtIters == Call("parse_stmt", ParserState, 0).ps.iters
\* the cursor when the parse_stmt call parse_prog makes now is over
StmtEnd == Call("parse_stmt", ParserState, 0).ps.m_index

\* C18: on every token sequence parse_prog ends, with the Program returned
\* or with a diagnostic and exit(EXIT_FAILURE); an iteration of parse_prog's
\* loop that goes on to the next one has moved the cursor forward, and so
\* has every such iteration of the statement loop of parse_scope and of the
\* operator loop of parse_expr; the cursor is never beyond the token count,
\* between the statements and inside them.
C18_ParserTerminates ==
    /\ <>(pc \in {"parsed", "exit_failure"})
    /\ [](pc = "exit_failure" => cerr # <<>>)
    /\ [][pc' = "parse" => m_index' > m_index]_vars
    /\ [](m_index <= Len(m_tokens))
    /\ [](pc = "parse" =>
            /\ StmtEnd <= Len(m_tokens)
            /\ \A k \in 1..Len(StmtIters) :
                   /\ StmtIters[k].from < StmtIters[k].to
                   /\ StmtIters[k].to <= Len(m_tokens))

\* a statement is parsed and parse_prog's loop is at a scope of two
\* statements, one of them with a sum: both inner loops go round in the
\* call made now
C18_Witness ==
    /\ pc = "parse"
    /\ Len(prog) = 1
    /\ m_index > 0
    /\ \E k \in 1..Len(StmtIters) : StmtIters[k].loop = "parse_scope"
    /\ \E k \in 1..Len(StmtIters) : StmtIters[k].loop = "parse_expr"

=============================================================================
